---- MODULE Spec2Model ----
(***************************************************************************)
(* Injector resolution paths of Angular DevTools: the chain walker         *)
(* (getInjectorResolutionPath), the token tracer (traceTokenInjectorPath), *)
(* the serializer of the backend (prepareForestForSerialization) and the   *)
(* path tree merger of the frontend (injectorTreeReloaded).                *)
(*                                                                         *)
(* The inspected application is a component tree (one DOM element per      *)
(* node) and a set of environment injectors linked by parent pointers.     *)
(* Live objects are modelled by their identity: a DOM element by the index *)
(* of its node, an injector by its index, a class or module type by its    *)
(* name.  Strings built by concatenation are sequences of their pieces.    *)
(***************************************************************************)
EXTENDS Naturals, Integers, Sequences, FiniteSets, TLC

\* ------------------------------------------------------------------ bounds
\* Component-tree nodes of the inspected application.
MaxNodes == 3
\* getLatestInjectorGraphView requests the frontend sends in one run.
MaxRequests == 2
\* Element injectors on the chain of a traced element.
MaxElements == 2

\* --------------------------------------------------------------- variables
VARIABLES
  nodes,                            \* the component tree: node -> DOM/view facts
  injectors,                        \* the environment injectors: index -> facts
  modules,                          \* the NgModule definitions: type -> imports, providers
  injectorMap,                      \* backend: owner -> id (a JS Map)
  containerInjectorIdToInstance,    \* backend: id -> injector instance
  uuidCounter,                      \* how many crypto.randomUUID() values were drawn
  requests,                         \* getLatestInjectorGraphView messages in flight
  sent,                             \* requests sent so far (bounded by MaxRequests)
  inbox,                            \* latestInjectorGraphView messages in flight
  collapseSiblingElementInjector,   \* frontend: the collapse-siblings toggle
  forestWithInjectorPaths,          \* frontend: the forest the merge in progress received
  injectorPaths,                    \* frontend: the paths of the merge in progress
  pathIdx,                          \* frontend: paths of injectorPaths already inserted
  localTree,                        \* frontend: the tree the merge in progress builds
  injectorTree,                     \* frontend: the tree shown (top-level list)
  pc,                               \* frontend: "idle" | "merging"
  injectorTreeComponent,            \* frontend: the fields of the injector tree tab
  messageBus,                       \* getProviders / receiveProviders in flight, once handlers
  pathNode,                         \* frontend: the flattened chain of the resolution path view
  lastCall                          \* the last call of the ng debugging API and its result

vars == <<nodes, injectors, modules, injectorMap, containerInjectorIdToInstance, uuidCounter,
          requests, sent, inbox, collapseSiblingElementInjector,
          forestWithInjectorPaths, injectorPaths, pathIdx, localTree, injectorTree, pc,
          injectorTreeComponent, messageBus, pathNode, lastCall>>

world == <<nodes, injectors, modules>>
backend == <<injectorMap, containerInjectorIdToInstance, uuidCounter>>
merger == <<forestWithInjectorPaths, injectorPaths, pathIdx, localTree, injectorTree, pc>>
calls == <<lastCall>>
messages == <<requests, sent, inbox>>
tab == <<injectorTreeComponent, messageBus, pathNode>>

\* ----------------------------------------------------------------- helpers
\* JS undefined for a class or module type.
Undef == "undefined"

\* Live objects used as owners and Map keys: a DOM node or a class.
DomNode(n) == [kind |-> "dom", el |-> n, name |-> ""]
ClassOf(name) == [kind |-> "class", el |-> 0, name |-> name]

RECURSIVE Join(_)
\* Array.prototype.join(', ') over a sequence of names, as a sequence of pieces.
Join(names) ==
  IF Len(names) = 0 THEN <<>>
  ELSE IF Len(names) = 1 THEN <<names[1]>>
  ELSE <<names[1], ", ">> \o Join(Tail(names))

\* A path left in the order it was received in.
Unreversed(s) == s

RECURSIVE Reverse(_)
\* Array.prototype.slice().reverse()
Reverse(s) == IF Len(s) = 0 THEN <<>> ELSE Append(Reverse(Tail(s)), Head(s))

\* ---------------------------------------------------------- chain walker
\* A DOM element that belongs to no view: getLContext(element) is null.
NoContextElement == 0

\* getLContext(element) !== null: the element belongs to a view that is alive.
HasLContext(element) == element # NoContextElement /\ nodes[element].context

RECURSIVE ParentInjectorLocation(_)
\* The nearest ancestor element that has a node injector, 0 for
\* NO_PARENT_INJECTOR.  A forest root and the host of a dynamically created
\* view have no parent location.
ParentInjectorLocation(n) ==
  IF nodes[n].parent = 0 \/ nodes[n].detached THEN 0
  ELSE IF nodes[nodes[n].parent].hasInjector THEN nodes[n].parent
  ELSE ParentInjectorLocation(nodes[n].parent)

RECURSIVE NodeInjectorChain(_)
\* The while loop of getInjectorPath: the elements of the node injectors from
\* location i up to the one without a parent.
NodeInjectorChain(i) ==
  IF i = 0 THEN <<>> ELSE <<i>> \o NodeInjectorChain(ParentInjectorLocation(i))

\* getInjectorPath(lView, tNode): start at the element's own node injector or,
\* when it has none, at its parent location.
getInjectorPath(n) ==
  NodeInjectorChain(IF nodes[n].hasInjector THEN n ELSE ParentInjectorLocation(n))

\* injector?.get?.(NgModuleRef, null, InjectFlags.Self) for injector index i
\* (0 is undefined).
ModuleRefOf(i) == IF i = 0 THEN Undef ELSE injectors[i].moduleRef

\* moduleRef?.instance?.constructor
ModuleTypeOf(ref) == IF ref \in {Undef, "null", "noinstance"} THEN Undef ELSE ref

\* ngModuleType has a module definition (its static mod field is set)
HasModuleDef(type) == type \in {"AppModule", "LazyModule"}

\* The record one iteration of the environment loop pushes, as a sequence of
\* zero or one record.
ClassifyInjector(i, ngModuleType) ==
  LET inj == injectors[i] IN
  IF inj.isNull
    THEN <<[type |-> "NullInjector", owner |-> ClassOf(inj.ctor), instance |-> i]>>
  ELSE IF "platform" \in inj.scopes
    THEN <<[type |-> "Platform", owner |-> ClassOf(inj.ctor), instance |-> i]>>
  ELSE IF "environment" \in inj.scopes /\ "root" \in inj.scopes
    THEN IF ngModuleType # Undef
           THEN <<[type |-> "Module", owner |-> ClassOf(ngModuleType), instance |-> i]>>
           ELSE <<[type |-> "Injector", owner |-> ClassOf(inj.ctor), instance |-> i]>>
  ELSE IF ngModuleType # Undef /\ HasModuleDef(ngModuleType)
    THEN <<[type |-> "Module", owner |-> ClassOf(ngModuleType), instance |-> i]>>
  ELSE <<>>

\* The injector the loop continues with after injector i: its parent, or the
\* grandparent when the parent is the hidden AppModule wrapper.
NextInjector(i) ==
  LET p == injectors[i].parent IN
  IF p # 0 /\ injectors[p].source = "AppModule" /\ ModuleRefOf(p) = "null"
    THEN injectors[p].parent
    ELSE p

RECURSIVE WalkEnvironment(_, _)
\* The while loop of getInjectorResolutionPath from injector i with the module
\* type read for it.  The module type of the next iteration is read from the
\* parent, also when the parent is skipped.
WalkEnvironment(i, ngModuleType) ==
  IF i = 0 THEN <<>>
  ELSE IF injectors[i].isNull THEN ClassifyInjector(i, ngModuleType)
  ELSE ClassifyInjector(i, ngModuleType)
         \o WalkEnvironment(NextInjector(i), ModuleTypeOf(ModuleRefOf(injectors[i].parent)))

\* The Element records of a walk.
ElementRecords(n) ==
  LET els == getInjectorPath(n) IN
  [k \in 1..Len(els) |-> [type |-> "Element", owner |-> DomNode(els[k]), instance |-> 0]]

\* getInjectorResolutionPath(element) for an element with a view context.
getInjectorResolutionPath(n) ==
  LET start == nodes[n].envStart
      ngModuleType == ModuleTypeOf(ModuleRefOf(start))
  IN IF ngModuleType = Undef THEN ElementRecords(n)
     ELSE ElementRecords(n) \o WalkEnvironment(start, ngModuleType)

\* ------------------------------------------------------------ token tracer
\* tokenToTrace == null: a token that is null or undefined.
NullToken == "null"

\* Tokens that can be traced: a class provided by providers arrays, and a
\* framework-builtin token (one that carries __NG_ELEMENT_ID__).
Tokens == {"Service", "TemplateRef"}
isSpecialToken(token) == token = "TemplateRef"

\* debugNode.instances: the component and directive instances of an element.
InstancesOf(el) ==
  (IF nodes[el].component # "" THEN <<nodes[el].component>> ELSE <<>>) \o nodes[el].directives

\* [...injector.providers, ...injector.viewProviders].find(...) is truthy on
\* the debug node of element el.
ProvidedOnElement(el, token) == token \in nodes[el].providers

\* elementInjector.get(token, DEVTOOLS_NOT_FOUND, Self | Optional) !==
\* DEVTOOLS_NOT_FOUND on the node injector of element el.
SelfLookupOnElement(el, token) == isSpecialToken(token) /\ nodes[el].selfSpecial

\* injector.get(token, DEVTOOLS_NOT_FOUND, InjectFlags.Self) on environment
\* injector i: "none" for DEVTOOLS_NOT_FOUND, else whether the value is truthy.
SelfLookup(i, token) == IF isSpecialToken(token) THEN "none" ELSE injectors[i].provides

\* if (injector.get(tokenToTrace, DEVTOOLS_NOT_FOUND, InjectFlags.Self)):
\* DEVTOOLS_NOT_FOUND is an object, so it is truthy.
LookupIsTruthy(i, token) == SelfLookup(i, token) # "falsy"

\* injector.get(...) !== DEVTOOLS_NOT_FOUND
LookupFound(i, token) == SelfLookup(i, token) # "none"

RECURSIVE TraceElements(_, _, _, _, _)
\* The loop over debugNodes from position k on: push an Element record, return
\* when the token is found.  A special token is looked up on the injector of
\* the element the trace started from, for every debug node.
TraceElements(n, els, k, token, injectorPath) ==
  IF k > Len(els) THEN [outcome |-> "continue", path |-> injectorPath, station |-> 0]
  ELSE IF Len(InstancesOf(els[k])) = 0
    THEN [outcome |-> "threw", path |-> injectorPath, station |-> 0]
  ELSE LET pushed == Append(injectorPath,
                            [type |-> "Element", owner |-> ClassOf(InstancesOf(els[k])[1])])
       IN IF isSpecialToken(token)
            THEN IF SelfLookupOnElement(n, token)
                   THEN [outcome |-> "returned", path |-> pushed, station |-> -els[k]]
                   ELSE TraceElements(n, els, k + 1, token, pushed)
            ELSE IF ProvidedOnElement(els[k], token)
                   THEN [outcome |-> "returned", path |-> pushed, station |-> -els[k]]
                   ELSE TraceElements(n, els, k + 1, token, pushed)

RECURSIVE walkProviderTree(_, _)
\* walkProviderTree(container, visitor, [], dedup) as the sequence of the
\* visitor calls it makes: for a module type not seen before, first the calls
\* of its imports in order, then the providers the framework adds for the
\* module type itself, then the providers the module declares.  A provider is
\* named by the token it provides.
walkProviderTree(container, dedup) ==
  IF container \notin DOMAIN modules \/ container \in dedup
    THEN [visits |-> <<>>, dedup |-> dedup]
  ELSE LET def == modules[container]
           Imported[k \in 0..Len(def.imports)] ==
             IF k = 0 THEN [visits |-> <<>>, dedup |-> dedup \cup {container}]
             ELSE LET r == walkProviderTree(def.imports[k], Imported[k - 1].dedup)
                  IN [visits |-> Imported[k - 1].visits \o r.visits, dedup |-> r.dedup]
           imports == Imported[Len(def.imports)]
           own == <<container, "INJECTOR_DEF_TYPES", "ENVIRONMENT_INITIALIZER">> \o def.providers
       IN [visits |-> imports.visits
                        \o [k \in 1..Len(own) |-> [provider |-> own[k], ngModule |-> container]],
           dedup |-> imports.dedup]

\* A visitor that puts a module at the end of the path instead of the front.
traceTokenInjectorPathVisitorAppending(found, provider, ngModule, tokenToTrace) ==
  IF found.foundModule
    THEN IF \E k \in 1..Len(modules[ngModule].imports) :
              modules[ngModule].imports[k] = found.pathCursor
           THEN [foundModule |-> TRUE, pathCursor |-> ngModule,
                 path |-> Append(found.path, ngModule)]
           ELSE found
  ELSE IF provider = tokenToTrace
    THEN [foundModule |-> TRUE, pathCursor |-> ngModule, path |-> <<ngModule>>]
  ELSE found

\* traceTokenInjectorPathVisitor(provider, ngModule) on the closure variables
\* foundModule, pathCursor and path.
traceTokenInjectorPathVisitor(found, provider, ngModule, tokenToTrace) ==
  IF found.foundModule
    THEN IF \E k \in 1..Len(modules[ngModule].imports) :
              modules[ngModule].imports[k] = found.pathCursor
           THEN [foundModule |-> TRUE, pathCursor |-> ngModule,
                 path |-> <<ngModule>> \o found.path]
           ELSE found
  ELSE IF provider = tokenToTrace
    THEN [foundModule |-> TRUE, pathCursor |-> ngModule, path |-> <<ngModule>>]
  ELSE found

\* As findImportPathForTokenInModule, every record of kind ImportedModule.
findImportPathAllImported(moduleConstructor, tokenToTrace) ==
  LET visits == walkProviderTree(moduleConstructor, {}).visits
      Visited[k \in 0..Len(visits)] ==
        IF k = 0 THEN [foundModule |-> FALSE, pathCursor |-> Undef, path |-> <<>>]
        ELSE traceTokenInjectorPathVisitor(Visited[k - 1], visits[k].provider,
                                           visits[k].ngModule, tokenToTrace)
      path == Visited[Len(visits)].path
  IN [index \in 1..Len(path) |-> [type |-> "ImportedModule", owner |-> ClassOf(path[index])]]

\* findImportPathForTokenInModule(moduleConstructor, tokenToTrace)
findImportPathForTokenInModule(moduleConstructor, tokenToTrace) ==
  LET visits == walkProviderTree(moduleConstructor, {}).visits
      Visited[k \in 0..Len(visits)] ==
        IF k = 0 THEN [foundModule |-> FALSE, pathCursor |-> Undef, path |-> <<>>]
        ELSE traceTokenInjectorPathVisitor(Visited[k - 1], visits[k].provider,
                                           visits[k].ngModule, tokenToTrace)
      path == Visited[Len(visits)].path
  IN [index \in 1..Len(path) |->
        [type |-> IF index = 1 THEN "Module" ELSE "ImportedModule",
         owner |-> ClassOf(path[index])]]

\* The Module record of the injector that resolved the token.
ResolvingModule(ngModuleType, tokenToTrace) ==
  LET importPath == findImportPathForTokenInModule(ngModuleType, tokenToTrace)
  IN [type |-> "Module", owner |-> ClassOf(ngModuleType),
      importedFrom |-> IF Len(importPath) = 0 THEN [type |-> Undef, owner |-> ClassOf(Undef)]
                       ELSE importPath[Len(importPath)],
      importPath |-> importPath]

RECURSIVE TraceEnvironment(_, _, _, _)
\* The while loop of traceTokenInjectorPath from injector i on.  The step to
\* the parent reads moduleRef.instance.constructor without a guard: it throws
\* when the parent has no module ref or the module ref has no instance.
TraceEnvironment(i, ngModuleType, token, injectorPath) ==
  IF i = 0 THEN [outcome |-> "returned", path |-> injectorPath, station |-> 0]
  ELSE
  LET inj == injectors[i]
      module == [type |-> "Module", owner |-> ClassOf(ngModuleType)]
      pushed ==
        IF "platform" \in inj.scopes
          THEN Append(injectorPath, [type |-> "Platform", owner |-> ClassOf(inj.ctor)])
        ELSE IF "environment" \in inj.scopes /\ "root" \in inj.scopes
          THEN Append(injectorPath, module)
        ELSE IF ngModuleType # Undef /\ HasModuleDef(ngModuleType)
          THEN Append(injectorPath, module)
        ELSE injectorPath
      returns ==
        IF "platform" \in inj.scopes THEN LookupIsTruthy(i, token)
        ELSE IF "environment" \in inj.scopes /\ "root" \in inj.scopes
          THEN LookupIsTruthy(i, token)
        ELSE IF ngModuleType # Undef /\ HasModuleDef(ngModuleType)
          THEN LookupFound(i, token)
        ELSE FALSE
      moduleRef == ModuleRefOf(inj.parent)
  IN IF inj.isNull
       THEN [outcome |-> "returned",
             path |-> Append(injectorPath, [type |-> "NullInjector", owner |-> ClassOf(inj.ctor)]),
             station |-> i]
     ELSE IF returns
       THEN [outcome |-> "returned",
             path |-> IF "platform" \in inj.scopes THEN pushed
                      ELSE Append(injectorPath, ResolvingModule(ngModuleType, token)),
             station |-> i]
     ELSE IF moduleRef \in {Undef, "null", "noinstance"}
       THEN [outcome |-> "threw", path |-> pushed, station |-> i]
     ELSE TraceEnvironment(NextInjector(i), moduleRef, token, pushed)

\* traceTokenInjectorPath(element, tokenToTrace) for an element with a view
\* context and a token that is not null.  station is the place of the return:
\* -el for the debug node of element el, i for environment injector i.
traceTokenInjectorPath(n, token) ==
  LET onElements == TraceElements(n, getInjectorPath(n), 1, token, <<>>)
      start == nodes[n].envStart
  IN IF onElements.outcome # "continue" THEN onElements
     ELSE TraceEnvironment(start, ModuleTypeOf(ModuleRefOf(start)), token, onElements.path)

\* ------------------------------------------------------------- serializer
\* The indices of the nodes, in order.
NodeIndices == [i \in 1..Len(nodes) |-> i]

\* node.children of node n in order; the roots of the forest for n = 0.
Children(n) == SelectSeq(NodeIndices, LAMBDA i : nodes[i].parent = n)

\* The constructor names the Element branch maps over: the component (unless
\* the owner is a Comment node) followed by the directives, falsy ones dropped.
DirectiveNames(el) ==
  (IF ~nodes[el].isComment /\ nodes[el].component # "" THEN <<nodes[el].component>> ELSE <<>>)
    \o nodes[el].directives

\* The display label of an Element record: the first name, then the others in
\* brackets; undefined when there is no name at all.
ElementLabel(el) ==
  LET names == DirectiveNames(el)
      firstDirective == IF Len(names) = 0 THEN Undef ELSE names[1]
      restOfDirectives == IF Len(names) = 0 THEN <<>> ELSE Tail(names)
  IN IF Len(restOfDirectives) = 0 THEN <<firstDirective>>
     ELSE <<firstDirective, "[">> \o Join(restOfDirectives) \o <<"]">>

\* An id assignment that draws a fresh id on every sighting of an owner.
AssignFreshId(st, owner) ==
  [st EXCEPT !.map = owner :> (st.uuid + 1) @@ st.map, !.uuid = st.uuid + 1]

\* injectorMap.has / get / set with crypto.randomUUID(): the id of an owner is
\* the one the map holds, else a fresh one that the map then holds.
AssignId(st, owner) ==
  IF owner \in DOMAIN st.map THEN st
  ELSE [st EXCEPT !.map = owner :> (st.uuid + 1) @@ st.map, !.uuid = st.uuid + 1]

\* The body of the loop over a resolution path for one record.
SerializeRecord(st, injector) ==
  LET st1 == AssignId(st, injector.owner)
      id == st1.map[injector.owner]
  IN IF injector.type = "Element"
       THEN [st |-> st1,
             rec |-> [type |-> "Element", owner |-> ElementLabel(injector.owner.el), id |-> id]]
       ELSE [st |-> [st1 EXCEPT !.inst = id :> injector.instance @@ st1.inst],
             rec |-> [type |-> injector.type, owner |-> <<injector.owner.name>>, id |-> id]]

RECURSIVE SerializePath(_, _, _)
\* for (const injector of resolutionPath) from record k on.
SerializePath(st, path, k) ==
  IF k > Len(path) THEN [st |-> st, path |-> <<>>]
  ELSE LET one == SerializeRecord(st, path[k])
           rest == SerializePath(one.st, path, k + 1)
       IN [st |-> rest.st, path |-> <<one.rec>> \o rest.path]

RECURSIVE prepareForestForSerialization(_, _)
\* roots.map(...) with includeResolutionPath: the children of a node are
\* prepared while its serialized node is built, before its own resolution path
\* is read.  st.paths collects the resolutionPath of every serialized node.
\* For a node whose element has no view context the walker returns null and
\* the for...of over it throws: st.threw is set and nothing more is done.
prepareForestForSerialization(st, roots) ==
  IF Len(roots) = 0 \/ st.threw THEN st
  ELSE LET node == Head(roots)
           st1 == prepareForestForSerialization(st, Children(node))
           own == SerializePath(st1, getInjectorResolutionPath(node), 1)
           st2 == [own.st EXCEPT !.paths = node :> own.path @@ own.st.paths]
       IN IF st1.threw THEN st1
          ELSE IF ~HasLContext(node) THEN [st1 EXCEPT !.threw = TRUE]
          ELSE prepareForestForSerialization(st2, Tail(roots))

\* The forest as the message carries it: per node its parent and its
\* resolutionPath.
SerializedForest(st) ==
  [n \in 1..Len(nodes) |-> [parent |-> nodes[n].parent, hasPath |-> TRUE, resolutionPath |-> st.paths[n]]]

EmptyMap == [o \in {} |-> 0]

\* ------------------------------------------------------------ tree merger
\* An Element record before injector.node is set; node stands for the
\* component-tree node whose path the record belongs to.
NoNode == [resolutionPath |-> <<>>]

RECURSIVE grabInjectorPaths(_, _)
\* grabInjectorPaths(node): the node's path, reversed to root-first, when it
\* has one, then the paths of its children, depth first.
grabInjectorPaths(forest, n) ==
  LET kids == SelectSeq([i \in 1..Len(forest) |-> i], LAMBDA i : forest[i].parent = n)
      own == IF forest[n].hasPath
               THEN <<[node |-> [resolutionPath |-> forest[n].resolutionPath],
                       path |-> Reverse(forest[n].resolutionPath)]>>
               ELSE <<>>
      Below[k \in 0..Len(kids)] ==
        IF k = 0 THEN <<>> ELSE Below[k - 1] \o grabInjectorPaths(forest, kids[k])
  IN own \o Below[Len(kids)]

\* An equality that ignores the toggle: by id only.
equalNodeById(a, b, collapse) == a.id = b.id

\* An equality whose collapse rule asks for the same kind instead of two
\* elements with the same label.
equalNodeAnyKind(a, b, collapse) ==
  IF collapse /\ a.type = b.type
       /\ Len(a.node.resolutionPath) = Len(b.node.resolutionPath) /\ a.id # b.id
    THEN \A idx \in 2..Len(a.node.resolutionPath) :
           b.node.resolutionPath[idx].id = a.node.resolutionPath[idx].id
    ELSE a.id = b.id

\* equalNode(a, b) under the current toggle.
equalNode(a, b, collapse) ==
  IF collapse /\ a.type = "Element" /\ b.type = "Element" /\ a.owner = b.owner
       /\ Len(a.node.resolutionPath) = Len(b.node.resolutionPath) /\ a.id # b.id
    THEN LET aInjectors == Tail(a.node.resolutionPath)
             bInjectors == Tail(b.node.resolutionPath)
         IN \A idx \in 1..Len(aInjectors) : bInjectors[idx].id = aInjectors[idx].id
    ELSE a.id = b.id

\* A search that never finds an entry.
pathExistsNever(level, value, collapse) == 0

\* A search that looks at the first entry of the level only.
pathExistsFirstEntry(level, value, collapse) ==
  IF Len(level) > 0 /\ equalNode(level[1].injector, value, collapse) THEN 1 ELSE 0

\* pathExists(path, value): the index of the first entry of the level whose
\* injector equals value, 0 for false.
pathExists(level, value, collapse) ==
  LET hits == {i \in 1..Len(level) : equalNode(level[i].injector, value, collapse)}
  IN IF hits = {} THEN 0 ELSE CHOOSE i \in hits : \A j \in hits : i <= j

\* if (injector['type'] === 'Element') injector.node = node
WithNode(injector, node) ==
  [type |-> injector.type, owner |-> injector.owner, id |-> injector.id,
   node |-> IF injector.type = "Element" THEN node ELSE NoNode]

RECURSIVE InsertPath(_, _, _, _, _)
\* The inner loop of injectorTreeReloaded from record k of the path on, at the
\* level currentLevel: descend into the equal entry, else push a new entry and
\* descend into its children.
InsertPath(currentLevel, path, node, k, collapse) ==
  IF k > Len(path) THEN currentLevel
  ELSE LET injector == WithNode(path[k], node)
           existingPath == pathExists(currentLevel, injector, collapse)
       IN IF existingPath # 0
            THEN [currentLevel EXCEPT ![existingPath].children =
                    InsertPath(@, path, node, k + 1, collapse)]
            ELSE Append(currentLevel,
                        [injector |-> injector,
                         children |-> InsertPath(<<>>, path, node, k + 1, collapse)])

RECURSIVE MergePaths(_, _, _)
\* The outer loop: the tree after inserting the paths in order into tree.
MergePaths(tree, paths, collapse) ==
  IF Len(paths) = 0 THEN tree
  ELSE MergePaths(InsertPath(tree, Head(paths).path, Head(paths).node, 1, collapse),
                  Tail(paths), collapse)

\* ------------------------------------------------------------------ worlds
\* The environment injectors of the application: a lazily loaded module, the
\* root module, the platform and the null injector.
AppInjectors ==
  << [isNull |-> FALSE, scopes |-> {"environment"}, moduleRef |-> "LazyModule",
      source |-> "LazyModule", ctor |-> "R3Injector", provides |-> "none", parent |-> 2],
     [isNull |-> FALSE, scopes |-> {"environment", "root"}, moduleRef |-> "AppModule",
      source |-> "AppModule", ctor |-> "R3Injector", provides |-> "none", parent |-> 3],
     [isNull |-> FALSE, scopes |-> {"platform"}, moduleRef |-> "null",
      source |-> "Platform: core", ctor |-> "R3Injector", provides |-> "none", parent |-> 4],
     [isNull |-> TRUE, scopes |-> {}, moduleRef |-> "null",
      source |-> "", ctor |-> "NullInjector", provides |-> "none", parent |-> 0] >>

\* The injectors at which the environment chain of a view can start: 0 when
\* the view's injector has no parentInjector, the root module, and for the
\* host of a dynamically created view also the lazily loaded module.
EnvStarts(dynamic) == IF dynamic THEN {0, 1, 2} ELSE {0, 2}

\* The nodes that can follow the nodes w: a root of the forest, or a child of
\* an earlier node.  A root and the host of a dynamically created view start
\* their own environment chain and have a node injector; every other node is
\* in a view that inherits the chain of its parent.
NextNodes(w) ==
  { r \in [parent : 0..Len(w), component : {"TodoComponent"},
           directives : {<<>>, <<"TooltipDirective">>}, isComment : {FALSE},
           hasInjector : BOOLEAN, detached : BOOLEAN, envStart : 0..2,
           providers : {{}}, selfSpecial : {FALSE}, context : {TRUE}] :
      /\ Len(w) = 0 => r.parent = 0
      /\ r.parent = 0 => ~r.detached
      /\ (r.parent # 0 /\ ~r.detached) => r.envStart = w[r.parent].envStart
      /\ (r.parent = 0 \/ r.detached) => r.hasInjector /\ r.envStart \in EnvStarts(r.detached) }

RECURSIVE Forests(_)
\* The component trees of exactly n nodes.
Forests(n) ==
  IF n = 0 THEN {<<>>}
  ELSE UNION { {Append(w, r) : r \in NextNodes(w)} : w \in Forests(n - 1) }

\* The module types of an application.
ModuleNames == {"AppModule", "LazyModule", "MidModule", "ImpModule"}

\* Module definitions under which the module of every injector that holds a
\* value for the class token declares the provider itself, and no module
\* imports another.
DeclaringModules(chain) ==
  [name \in ModuleNames |->
     [imports |-> <<>>,
      providers |-> IF \E i \in 1..Len(chain) :
                         chain[i].moduleRef = name /\ chain[i].provides # "none"
                      THEN <<"Service">> ELSE <<>>]]

\* An environment injector without its parent link.
InjectorKind(scopes, moduleRef, source, provides) ==
  [isNull |-> FALSE, scopes |-> scopes, moduleRef |-> moduleRef, source |-> source,
   ctor |-> "R3Injector", provides |-> provides]

NullInjectorKind ==
  [isNull |-> TRUE, scopes |-> {}, moduleRef |-> "null", source |-> "",
   ctor |-> "NullInjector", provides |-> "none"]

\* The injectors of a chain: each one's parent is the next, the last has none.
Linked(kinds) ==
  [i \in 1..Len(kinds) |->
     [isNull |-> kinds[i].isNull, scopes |-> kinds[i].scopes, moduleRef |-> kinds[i].moduleRef,
      source |-> kinds[i].source, ctor |-> kinds[i].ctor, provides |-> kinds[i].provides,
      parent |-> IF i < Len(kinds) THEN i + 1 ELSE 0]]

\* The parts a parent chain is made of, each present or not, in the order the
\* framework links them: a lazily loaded module; the root injector, of a module
\* or of an application without one (its module ref adapter has no instance);
\* the hidden AppModule wrapper, below or above the root; the platform; the
\* null injector.  A chain without the null injector ends at an injector that
\* has no parent field.
LazyParts ==
  {<<>>} \cup {<<InjectorKind({"environment"}, "LazyModule", "LazyModule", p)>> :
                 p \in {"none", "truthy"}}
RootParts ==
  {<<>>} \cup {<<InjectorKind({"environment", "root"}, "AppModule", "Root", p)>> :
                 p \in {"none", "truthy", "falsy"}}
         \cup {<<InjectorKind({"environment", "root"}, "noinstance", "Root", "none")>>}
HiddenPart == <<InjectorKind({}, "null", "AppModule", "none")>>
PlatformParts ==
  {<<>>} \cup {<<InjectorKind({"platform"}, "null", "Platform: core", p)>> :
                 p \in {"none", "truthy"}}
NullParts == {<<>>, <<NullInjectorKind>>}

Chains ==
  { Linked(lazy \o hidden[1] \o root \o hidden[2] \o platform \o null) :
      lazy \in LazyParts, root \in RootParts, platform \in PlatformParts, null \in NullParts,
      hidden \in {<<<<>>, <<>>>>, <<HiddenPart, <<>>>>, <<<<>>, HiddenPart>>} }

\* The elements that can follow the elements w of a traced chain: a child of
\* the last one, in a view with the environment chain starting at start.  An
\* element without a node injector has no providers.
NextElements(w, start) ==
  { r \in [parent : {Len(w)}, component : {"TodoComponent"}, directives : {<<>>},
           isComment : {FALSE}, hasInjector : BOOLEAN, detached : {FALSE},
           envStart : {start}, providers : {{}, {"Service"}}, selfSpecial : BOOLEAN,
           context : {TRUE}] :
      ~r.hasInjector => r.providers = {} }

RECURSIVE ElementChains(_, _)
\* The elements of a traced chain of n elements, outermost first.  Only the
\* innermost may be without a node injector of its own.
ElementChains(n, start) ==
  IF n = 0 THEN {<<>>}
  ELSE UNION { {Append(w, r) : r \in NextElements(w, start)} :
                 w \in {x \in ElementChains(n - 1, start) :
                          \A i \in 1..Len(x) : x[i].hasInjector} }

\* The state before any call.
NoCall == [called |-> FALSE]

\* The injector tree tab before ngAfterViewInit: no graph, nothing selected,
\* providers = [].  shown is the ghost of providers: the request it answers;
\* rendered is the outcome of the last call of _render.
NoGraph ==
  [injectorTreeGraph |-> FALSE, nodeClickListeners |-> 0, drawn |-> {},
   selectedNode |-> 0, providers |-> <<>>, shown |-> 0, clicks |-> 0,
   rendered |-> "never"]

\* The resolution path view before its path input is set.
NoPath == [element |-> 0, token |-> "", flatPath |-> <<>>]

\* A bus with no receiveProviders handler and no message in flight.
NoMessages == [once |-> 0, getProviders |-> <<>>, receiveProviders |-> <<>>]

\* ------------------------------------------------------------------ actions
Init ==
  /\ nodes \in UNION {Forests(n) : n \in 1..MaxNodes}
  /\ injectors = AppInjectors
  /\ modules = DeclaringModules(AppInjectors)
  /\ injectorMap = EmptyMap
  /\ containerInjectorIdToInstance = EmptyMap
  /\ uuidCounter = 0
  /\ requests = 0
  /\ sent = 0
  /\ inbox = <<>>
  /\ collapseSiblingElementInjector = FALSE
  /\ forestWithInjectorPaths = <<>>
  /\ injectorPaths = <<>>
  /\ pathIdx = 0
  /\ localTree = <<>>
  /\ injectorTree = <<>>
  /\ pc = "idle"
  /\ injectorTreeComponent = NoGraph
  /\ messageBus = NoMessages
  /\ pathNode = NoPath
  /\ lastCall = NoCall

\* reloadInjectorTree(): emit getLatestInjectorGraphView.
ReloadInjectorTree ==
  /\ pc = "idle"
  /\ sent < MaxRequests
  /\ requests' = requests + 1
  /\ sent' = sent + 1
  /\ UNCHANGED <<world, backend, inbox, collapseSiblingElementInjector, merger, calls, tab>>

\* toggleSiblingElementCollapse(change): set the toggle and reload the tree.
ToggleSiblingElementCollapse ==
  /\ pc = "idle"
  /\ sent < MaxRequests
  /\ \E checked \in BOOLEAN : collapseSiblingElementInjector' = checked
  /\ requests' = requests + 1
  /\ sent' = sent + 1
  /\ UNCHANGED <<world, backend, inbox, merger, calls, tab>>

\* The handler of getLatestInjectorGraphView without injectorMap.clear().
GetLatestInjectorGraphViewWithoutClear ==
  /\ pc = "idle"
  /\ requests > 0
  /\ LET st == prepareForestForSerialization(
                 [map |-> injectorMap, uuid |-> uuidCounter,
                  inst |-> containerInjectorIdToInstance, paths |-> EmptyMap, threw |-> FALSE],
                 Children(0))
     IN /\ injectorMap' = st.map
        /\ uuidCounter' = st.uuid
        /\ containerInjectorIdToInstance' = st.inst
        /\ inbox' = IF st.threw THEN inbox ELSE Append(inbox, SerializedForest(st))
  /\ requests' = requests - 1
  /\ UNCHANGED <<world, sent, collapseSiblingElementInjector, merger, calls, tab>>

\* getLatestInjectorGraphCallback: clear the identity map, serialize the
\* forest with its resolution paths and emit latestInjectorGraphView.
GetLatestInjectorGraphView ==
  /\ pc = "idle"
  /\ requests > 0
  /\ LET st == prepareForestForSerialization(
                 [map |-> EmptyMap, uuid |-> uuidCounter,
                  inst |-> containerInjectorIdToInstance, paths |-> EmptyMap, threw |-> FALSE],
                 Children(0))
     IN /\ injectorMap' = st.map
        /\ uuidCounter' = st.uuid
        /\ containerInjectorIdToInstance' = st.inst
        /\ inbox' = IF st.threw THEN inbox ELSE Append(inbox, SerializedForest(st))
  /\ requests' = requests - 1
  /\ UNCHANGED <<world, sent, collapseSiblingElementInjector, merger, calls, tab>>

\* The latestInjectorGraphView handler up to the insertion loop of
\* injectorTreeReloaded: collect the paths of the first root of the forest.
LatestInjectorGraphView ==
  /\ pc = "idle"
  /\ Len(inbox) > 0
  /\ forestWithInjectorPaths' = Head(inbox)
  /\ injectorPaths' = grabInjectorPaths(Head(inbox), 1)
  /\ pathIdx' = 0
  /\ localTree' = <<>>
  /\ pc' = "merging"
  /\ inbox' = Tail(inbox)
  /\ UNCHANGED <<world, backend, requests, sent, collapseSiblingElementInjector, injectorTree, calls, tab>>

\* One iteration of the outer loop: insert the next path.
InsertNextPath ==
  /\ pc = "merging"
  /\ pathIdx < Len(injectorPaths)
  /\ localTree' = InsertPath(localTree, injectorPaths[pathIdx + 1].path,
                             injectorPaths[pathIdx + 1].node, 1,
                             collapseSiblingElementInjector)
  /\ pathIdx' = pathIdx + 1
  /\ UNCHANGED <<world, backend, requests, sent, inbox, collapseSiblingElementInjector,
                 forestWithInjectorPaths, injectorPaths, injectorTree, pc, calls, tab>>

\* this.injectorTree = injectorTree
InjectorTreeReloaded ==
  /\ pc = "merging"
  /\ pathIdx = Len(injectorPaths)
  /\ injectorTree' = localTree
  /\ pc' = "idle"
  /\ UNCHANGED <<world, backend, requests, sent, inbox, collapseSiblingElementInjector,
                 forestWithInjectorPaths, injectorPaths, pathIdx, localTree, calls, tab>>

Next ==
  \/ ReloadInjectorTree
  \/ ToggleSiblingElementCollapse
  \/ GetLatestInjectorGraphView
  \/ LatestInjectorGraphView
  \/ InsertNextPath
  \/ InjectorTreeReloaded

Spec == Init /\ [][Next]_vars

\* ------------------------------------------------- walker and tracer calls
InitTrace ==
  /\ injectors \in Chains
  /\ modules = DeclaringModules(injectors)
  /\ nodes \in UNION {ElementChains(n, IF Len(injectors) = 0 THEN 0 ELSE 1) : n \in 1..MaxElements}
  /\ injectorMap = EmptyMap
  /\ containerInjectorIdToInstance = EmptyMap
  /\ uuidCounter = 0
  /\ requests = 0
  /\ sent = 0
  /\ inbox = <<>>
  /\ collapseSiblingElementInjector = FALSE
  /\ forestWithInjectorPaths = <<>>
  /\ injectorPaths = <<>>
  /\ pathIdx = 0
  /\ localTree = <<>>
  /\ injectorTree = <<>>
  /\ pc = "idle"
  /\ injectorTreeComponent = NoGraph
  /\ messageBus = NoMessages
  /\ pathNode = NoPath
  /\ lastCall = NoCall

\* The DOM elements a call can be made on: the elements of the nodes and one
\* element outside every view.
Elements == {NoContextElement} \cup (1..Len(nodes))

\* A walker that returns an empty path for an element without a view context.
GetInjectorResolutionPathEmptyForNoContext ==
  /\ \E n \in Elements :
       lastCall' = [called |-> TRUE, fn |-> "getInjectorResolutionPath", element |-> n,
                    token |-> "", outcome |-> "returned",
                    path |-> IF HasLContext(n) THEN getInjectorResolutionPath(n) ELSE <<>>,
                    station |-> 0]
  /\ UNCHANGED <<world, backend, messages, collapseSiblingElementInjector, merger, tab>>

\* ng.getInjectorResolutionPath(element): null for an element without a view
\* context, else the path of the walk.
GetInjectorResolutionPath ==
  /\ \E n \in Elements :
       lastCall' = [called |-> TRUE, fn |-> "getInjectorResolutionPath", element |-> n,
                    token |-> "",
                    outcome |-> IF HasLContext(n) THEN "returned" ELSE "null",
                    path |-> IF HasLContext(n) THEN getInjectorResolutionPath(n) ELSE <<>>,
                    station |-> 0]
  /\ UNCHANGED <<world, backend, messages, collapseSiblingElementInjector, merger, tab>>

\* ng.traceTokenInjectorPath(element, tokenToTrace): the empty path for a
\* token that is null or undefined, then null for an element without a view
\* context, else the result of the trace.
TraceTokenInjectorPath ==
  /\ \E n \in Elements, token \in Tokens \cup {NullToken} :
       LET r == IF token = NullToken
                  THEN [outcome |-> "returned", path |-> <<>>, station |-> 0]
                ELSE IF ~HasLContext(n)
                  THEN [outcome |-> "null", path |-> <<>>, station |-> 0]
                ELSE traceTokenInjectorPath(n, token)
       IN lastCall' = [called |-> TRUE, fn |-> "traceTokenInjectorPath", element |-> n,
                       token |-> token, outcome |-> r.outcome, path |-> r.path,
                       station |-> r.station]
  /\ UNCHANGED <<world, backend, messages, collapseSiblingElementInjector, merger, tab>>

NextTrace ==
  \/ GetInjectorResolutionPath
  \/ TraceTokenInjectorPath

SpecTrace == InitTrace /\ [][NextTrace]_vars

\* ------------------------------------------- traces through module imports
\* The module definitions of an application whose root module, lazily loaded
\* module and intermediate module import others, in the orders the imports
\* arrays can list them; the class token and an unrelated token are declared
\* by some of them.
ModuleGraphs ==
  { [name \in ModuleNames |->
       CASE name = "AppModule" -> [imports |-> app, providers |-> appProviders]
         [] name = "LazyModule" -> [imports |-> lazy, providers |-> <<>>]
         [] name = "MidModule" -> [imports |-> mid, providers |-> midProviders]
         [] OTHER -> [imports |-> <<>>, providers |-> impProviders]] :
      app \in {<<>>, <<"MidModule">>, <<"ImpModule">>, <<"ImpModule", "MidModule">>,
               <<"MidModule", "ImpModule">>},
      appProviders \in {<<>>, <<"Service">>},
      lazy \in {<<>>, <<"MidModule">>},
      mid \in {<<>>, <<"ImpModule">>},
      midProviders \in {<<>>, <<"Config">>},
      impProviders \in {<<>>, <<"Service">>, <<"Config", "Service">>} }

\* What the injector created for a module type holds for the class token: the
\* providers of the module and of everything it imports are registered in it.
HeldBy(moduleType) ==
  IF \E k \in 1..Len(walkProviderTree(moduleType, {}).visits) :
       walkProviderTree(moduleType, {}).visits[k].provider = "Service"
    THEN "truthy" ELSE "none"

\* The injectors of the application: with or without the injector of the
\* lazily loaded module below the root injector.
ImportChain(withLazy) ==
  Linked((IF withLazy
            THEN <<InjectorKind({"environment"}, "LazyModule", "LazyModule", HeldBy("LazyModule"))>>
            ELSE <<>>)
         \o <<InjectorKind({"environment", "root"}, "AppModule", "Root", HeldBy("AppModule")),
               InjectorKind({"platform"}, "null", "Platform: core", "none"),
               NullInjectorKind>>)

InitImports ==
  /\ modules \in ModuleGraphs
  /\ \E withLazy \in BOOLEAN : injectors = ImportChain(withLazy)
  /\ nodes \in ElementChains(1, 1)
  /\ injectorMap = EmptyMap
  /\ containerInjectorIdToInstance = EmptyMap
  /\ uuidCounter = 0
  /\ requests = 0
  /\ sent = 0
  /\ inbox = <<>>
  /\ collapseSiblingElementInjector = FALSE
  /\ forestWithInjectorPaths = <<>>
  /\ injectorPaths = <<>>
  /\ pathIdx = 0
  /\ localTree = <<>>
  /\ injectorTree = <<>>
  /\ pc = "idle"
  /\ injectorTreeComponent = NoGraph
  /\ messageBus = NoMessages
  /\ pathNode = NoPath
  /\ lastCall = NoCall

SpecImports == InitImports /\ [][NextTrace]_vars

\* ------------------------------------------------------- backend handlers
\* Nodes of the component tree the backend handlers are run on.
MaxBackendNodes == 2

\* The injectors of a standalone application that loads a module lazily: the
\* root injector's module ref has no instance, so the walk from the lazily
\* loaded module records it as a generic Injector.
StandaloneInjectors ==
  Linked(<<InjectorKind({"environment"}, "LazyModule", "LazyModule", "none"),
           InjectorKind({"environment", "root"}, "noinstance", "Root", "none"),
           InjectorKind({"platform"}, "null", "Platform: core", "none"),
           NullInjectorKind>>)

\* serializeResolutionPath(injectors) would read .name of an undefined owner.
SerializeThrows(path) ==
  \E k \in 1..Len(path) : path[k].owner = ClassOf(Undef)

RECURSIVE serializeResolutionPath(_)
\* serializeResolutionPath(injectors): every owner becomes its name, in the
\* records of an importPath too; importedFrom is the last of them.
serializeResolutionPath(path) ==
  [k \in 1..Len(path) |->
     IF "importPath" \in DOMAIN path[k]
       THEN LET imports == serializeResolutionPath(path[k].importPath)
            IN [type |-> path[k].type, owner |-> <<path[k].owner.name>>,
                importedFrom |-> IF Len(imports) = 0 THEN path[k].importedFrom
                                 ELSE imports[Len(imports)],
                importPath |-> imports]
       ELSE [type |-> path[k].type, owner |-> <<path[k].owner.name>>]]

\* ng.traceTokenInjectorPath(node.nativeElement, token) followed by
\* serializeResolutionPath(resolutionPath), for a node of the component tree.
TracedAndSerialized(n, token) ==
  LET r == IF HasLContext(n) THEN traceTokenInjectorPath(n, token)
           ELSE [outcome |-> "null", path |-> <<>>, station |-> 0]
  IN IF r.outcome = "returned" /\ SerializeThrows(r.path)
       THEN [outcome |-> "threw", path |-> r.path, station |-> r.station]
     ELSE IF r.outcome = "returned"
       THEN [outcome |-> "returned", path |-> serializeResolutionPath(r.path),
             station |-> r.station]
     ELSE r

\* The state of the two maps and the serialized paths after
\* injectorMap.clear() and prepareForestForSerialization(forest, true).
Rebuilt ==
  prepareForestForSerialization(
    [map |-> EmptyMap, uuid |-> uuidCounter,
     inst |-> containerInjectorIdToInstance, paths |-> EmptyMap, threw |-> FALSE],
    Children(0))

\* The queries of a getLatestComponentExplorerView request: none, one whose
\* selectedElement is the position of a node, one whose position has no node.
NoQuery == 0
MissingElement == -1
Queries == {NoQuery, MissingElement} \cup (1..Len(nodes))

\* What getLatestComponentExplorerViewCallback(query) does after
\* prepareForestForSerialization: nothing when that threw; else it emits
\* latestInjectorGraphView and then, without a query, latestComponentExplorerView.
\* With a query getLatestComponentState returns [undefined, undefined] for a
\* position without a node and injector.forEach throws; for a node the token
\* of its injector parameter is traced and serialized, and
\* latestComponentExplorerView is emitted unless that threw.
ExplorerView(rebuildThrew, query, token) ==
  LET r == IF rebuildThrew \/ query = MissingElement
             THEN [outcome |-> "threw", path |-> <<>>, station |-> 0]
           ELSE IF query = NoQuery
             THEN [outcome |-> "returned", path |-> <<>>, station |-> 0]
           ELSE TracedAndSerialized(query, token)
  IN [called |-> TRUE, fn |-> "getLatestComponentExplorerView",
      element |-> query, token |-> IF query \in 1..Len(nodes) THEN token ELSE "",
      outcome |-> r.outcome, path |-> r.path, station |-> r.station,
      emitted |-> IF rebuildThrew THEN <<>>
                  ELSE IF r.outcome = "threw" THEN <<"latestInjectorGraphView">>
                  ELSE <<"latestInjectorGraphView", "latestComponentExplorerView">>]

\* The handler of getLatestComponentExplorerView without injectorMap.clear().
GetLatestComponentExplorerViewWithoutClear ==
  /\ sent < MaxRequests
  /\ LET st == prepareForestForSerialization(
                 [map |-> injectorMap, uuid |-> uuidCounter,
                  inst |-> containerInjectorIdToInstance, paths |-> EmptyMap, threw |-> FALSE],
                 Children(0))
     IN /\ injectorMap' = st.map
        /\ uuidCounter' = st.uuid
        /\ containerInjectorIdToInstance' = st.inst
        /\ inbox' = IF st.threw THEN inbox ELSE Append(inbox, SerializedForest(st))
        /\ \E query \in Queries, token \in Tokens :
             lastCall' = ExplorerView(st.threw, query, token)
  /\ sent' = sent + 1
  /\ UNCHANGED <<world, requests, collapseSiblingElementInjector, merger, tab>>

\* getLatestComponentExplorerViewCallback(query): clear the identity map,
\* serialize the forest with its resolution paths, emit
\* latestInjectorGraphView, then trace the parameter of the query, if there is
\* a query, and emit latestComponentExplorerView.
GetLatestComponentExplorerView ==
  /\ sent < MaxRequests
  /\ LET st == Rebuilt
     IN /\ injectorMap' = st.map
        /\ uuidCounter' = st.uuid
        /\ containerInjectorIdToInstance' = st.inst
        /\ inbox' = IF st.threw THEN inbox ELSE Append(inbox, SerializedForest(st))
        /\ \E query \in Queries, token \in Tokens :
             lastCall' = ExplorerView(st.threw, query, token)
  /\ sent' = sent + 1
  /\ UNCHANGED <<world, requests, collapseSiblingElementInjector, merger, tab>>

\* traceInjectorParameterResolutionPathCallback(directivePosition,
\* injectorParameter): nothing for a position without a node (n = 0), else
\* the serialized trace of the parameter's token.
TraceInjectorParameterResolutionPath ==
  /\ \E n \in 0..Len(nodes), token \in Tokens :
       LET r == IF n = 0 THEN [outcome |-> "null", path |-> <<>>, station |-> 0]
                ELSE TracedAndSerialized(n, token)
       IN lastCall' = [called |-> TRUE, fn |-> "traceInjectorParameterResolutionPath",
                       element |-> n, token |-> token,
                       outcome |-> r.outcome, path |-> r.path, station |-> r.station]
  /\ UNCHANGED <<world, backend, messages, collapseSiblingElementInjector, merger, tab>>

\* The ids a getProviders request can carry: those drawn so far and one that
\* was never drawn.
RequestIds == 1..(uuidCounter + 1)

\* The owner the loop over injectorMap.entries() stops at: the one whose id is
\* the id of the request; Undef when the loop runs to its end.
OwnerOfId(id) ==
  IF \E owner \in DOMAIN injectorMap : injectorMap[owner] = id
    THEN CHOOSE owner \in DOMAIN injectorMap : injectorMap[owner] = id
    ELSE ClassOf(Undef)

\* ng.getContainerProviders(owner): the providers the walk over the module
\* type visits.
getContainerProviders(container) ==
  LET visits == walkProviderTree(container, {}).visits
  IN [k \in 1..Len(visits) |-> visits[k].provider]

\* The getProviders handler: the providers of the owner that injectorMap
\* holds for the id, read for a container from the instance the side table
\* holds for the id; an empty list when no owner has the id.  The debug node
\* of an element that was destroyed since the rebuild cannot be read.
GetProviders ==
  /\ \E id \in RequestIds :
       LET owner == OwnerOfId(id)
           destroyed == owner.kind = "dom" /\ owner.el > Len(nodes)
           providers ==
             IF owner = ClassOf(Undef) \/ destroyed THEN <<>>
             ELSE IF owner.kind = "dom"
               THEN IF "Service" \in nodes[owner.el].providers THEN <<"Service">> ELSE <<>>
             ELSE getContainerProviders(owner.name)
       IN lastCall' = [called |-> TRUE, fn |-> "getProviders", element |-> 0,
                       token |-> "", outcome |-> IF destroyed THEN "threw" ELSE "returned",
                       path |-> <<>>, station |-> 0,
                       id |-> id, owner |-> owner, providers |-> providers,
                       instance |-> IF owner.kind = "class" /\ owner # ClassOf(Undef)
                                      THEN containerInjectorIdToInstance[id] ELSE 0]
  /\ UNCHANGED <<world, backend, messages, collapseSiblingElementInjector, merger, tab>>

\* The inspected application destroys the last component of its tree.
DestroyNode ==
  /\ Len(nodes) > 1
  /\ nodes' = SubSeq(nodes, 1, Len(nodes) - 1)
  /\ UNCHANGED <<injectors, modules, backend, messages, collapseSiblingElementInjector,
                 merger, calls, tab>>

\* The inspected application destroys the view of the last component of its
\* tree while the indexed forest still lists the component.
DestroyView ==
  /\ nodes[Len(nodes)].context
  /\ nodes' = [nodes EXCEPT ![Len(nodes)].context = FALSE]
  /\ UNCHANGED <<injectors, modules, backend, messages, collapseSiblingElementInjector,
                 merger, calls, tab>>

\* A forest whose first node is an anchor: a comment node with a node injector
\* and neither a component nor a directive.
WithAnchor(w) ==
  [w EXCEPT ![1] = [@ EXCEPT !.component = "", !.directives = <<>>, !.isComment = TRUE]]

\* The component trees the backend handlers are run on.
BackendForests ==
  LET forests == UNION {Forests(n) : n \in 1..MaxBackendNodes}
  IN forests \cup {WithAnchor(w) : w \in forests}

InitBackend ==
  /\ injectors \in {AppInjectors, StandaloneInjectors}
  /\ modules = DeclaringModules(injectors)
  /\ nodes \in BackendForests
  /\ injectorMap = EmptyMap
  /\ containerInjectorIdToInstance = EmptyMap
  /\ uuidCounter = 0
  /\ requests = 0
  /\ sent = 0
  /\ inbox = <<>>
  /\ collapseSiblingElementInjector = FALSE
  /\ forestWithInjectorPaths = <<>>
  /\ injectorPaths = <<>>
  /\ pathIdx = 0
  /\ localTree = <<>>
  /\ injectorTree = <<>>
  /\ pc = "idle"
  /\ injectorTreeComponent = NoGraph
  /\ messageBus = NoMessages
  /\ pathNode = NoPath
  /\ lastCall = NoCall

NextBackend ==
  \/ ReloadInjectorTree
  \/ GetLatestInjectorGraphView
  \/ GetLatestComponentExplorerView
  \/ TraceInjectorParameterResolutionPath
  \/ GetProviders
  \/ DestroyNode
  \/ DestroyView

SpecBackend == InitBackend /\ [][NextBackend]_vars

\* ------------------------------------------------------ injector tree tab
\* Clicks on nodes of the drawn tree.
MaxClicks == 2

RECURSIVE IdsUnder(_)
\* The ids of the injectors of the entries of a level and of their descendants.
IdsUnder(level) ==
  UNION { {level[i].injector.id} \cup IdsUnder(level[i].children) : i \in 1..Len(level) }

\* injectorTree[0]?.children?.[0].injector reads .injector of undefined when
\* the first root has an empty children list.
RenderThrows(tree) == Len(tree) > 0 /\ Len(tree[1].children) = 0

\* InjectorTreeGraph.update without the reset of the listeners.
updateKeepingListeners(component, injectorGraph) ==
  [component EXCEPT !.drawn = IdsUnder(SubSeq(injectorGraph, 1, 1))]

\* InjectorTreeGraph.update(injectorGraph): drop the listeners and draw the
\* tree under the first root, injectorGraph[0].
update(component, injectorGraph) ==
  [component EXCEPT !.nodeClickListeners = 0,
                    !.drawn = IdsUnder(SubSeq(injectorGraph, 1, 1))]

\* InjectorTreeGraph.onNodeClick(cb): push the listener.
onNodeClick(component) == [component EXCEPT !.nodeClickListeners = @ + 1]

\* ngAfterViewInit(): create the graph.
NgAfterViewInit ==
  /\ ~injectorTreeComponent.injectorTreeGraph
  /\ injectorTreeComponent' = [injectorTreeComponent EXCEPT !.injectorTreeGraph = TRUE]
  /\ UNCHANGED <<world, backend, messages, collapseSiblingElementInjector, merger, calls,
                 messageBus, pathNode>>

\* set injectorTree(injectorTree), with the tree of the tabs component: return
\* without a graph, else _render: update the graph and add the click listener.
\* Nothing after the throw of the first line of _render happens.
SetInjectorTree ==
  /\ pc = "idle"
  /\ Len(injectorTree) > 0
  /\ injectorTreeComponent' =
       IF ~injectorTreeComponent.injectorTreeGraph THEN injectorTreeComponent
       ELSE IF RenderThrows(injectorTree)
         THEN [injectorTreeComponent EXCEPT !.rendered = "threw"]
       ELSE [onNodeClick(update(injectorTreeComponent, injectorTree))
               EXCEPT !.rendered = "returned"]
  /\ UNCHANGED <<world, backend, messages, collapseSiblingElementInjector, merger, calls,
                 messageBus, pathNode>>

\* A click on a drawn node: every listener sets selectedNode, registers a
\* receiveProviders handler with once and emits getProviders.
NodeClick ==
  /\ injectorTreeComponent.clicks < MaxClicks
  /\ \E id \in injectorTreeComponent.drawn :
       LET listeners == injectorTreeComponent.nodeClickListeners IN
       /\ injectorTreeComponent' =
            [injectorTreeComponent EXCEPT
               !.selectedNode = IF listeners > 0 THEN id ELSE @,
               !.clicks = @ + 1]
       /\ messageBus' =
            [messageBus EXCEPT
               !.once = @ + listeners,
               !.getProviders = @ \o [k \in 1..listeners |-> id]]
  /\ UNCHANGED <<world, backend, messages, collapseSiblingElementInjector, merger, calls,
                 pathNode>>

\* The constructor parameters of the class a provider stands for.
DependenciesOf(provider) == IF provider = "Service" THEN <<"Dependency">> ELSE <<>>

\* The getProviders handler on a message of the bus: as GetProviders, and
\* emit receiveProviders unless the handler threw.  for is the ghost of the
\* message: the id of the request it answers.
GetProvidersMessage ==
  /\ Len(messageBus.getProviders) > 0
  /\ LET id == Head(messageBus.getProviders)
         owner == OwnerOfId(id)
         destroyed == owner.kind = "dom" /\ owner.el > Len(nodes)
         providers ==
           IF owner = ClassOf(Undef) THEN <<>>
           ELSE IF owner.kind = "dom"
             THEN IF "Service" \in nodes[owner.el].providers THEN <<"Service">> ELSE <<>>
           ELSE getContainerProviders(owner.name)
         providersForInjector ==
           [k \in 1..Len(providers) |->
              [provider |-> providers[k], dependencies |-> DependenciesOf(providers[k])]]
     IN messageBus' =
          [messageBus EXCEPT
             !.getProviders = Tail(@),
             !.receiveProviders =
               IF destroyed THEN @
               ELSE Append(@, [for |-> id, providers |-> providersForInjector])]
  /\ UNCHANGED <<world, backend, messages, collapseSiblingElementInjector, merger, calls,
                 injectorTreeComponent, pathNode>>

\* A receiveProviders message arrives at the frontend: handlers registered
\* with once are called with it and removed, at least one when there is one;
\* each sets providers to the providers that have dependencies.
ReceiveProviders ==
  /\ Len(messageBus.receiveProviders) > 0
  /\ LET message == Head(messageBus.receiveProviders)
         kept == SelectSeq(message.providers, LAMBDA p : Len(p.dependencies) > 0)
     IN IF messageBus.once = 0
          THEN /\ messageBus' = [messageBus EXCEPT !.receiveProviders = Tail(@)]
               /\ UNCHANGED injectorTreeComponent
          ELSE /\ \E called \in 1..messageBus.once :
                    messageBus' = [messageBus EXCEPT !.receiveProviders = Tail(@),
                                                     !.once = @ - called]
               /\ injectorTreeComponent' =
                    [injectorTreeComponent EXCEPT !.providers = kept,
                                                  !.shown = message.for]
  /\ UNCHANGED <<world, backend, messages, collapseSiblingElementInjector, merger, calls,
                 pathNode>>

\* A forest whose first node declares the provider Service.
WithProvider(w) == [w EXCEPT ![1] = [@ EXCEPT !.providers = {"Service"}]]

\* The component trees of the tab: elements without directives, attached.
TabForests ==
  LET forests == {w \in UNION {Forests(n) : n \in 1..MaxBackendNodes} :
                    \A n \in 1..Len(w) : w[n].directives = <<>> /\ ~w[n].detached}
  IN forests \cup {WithProvider(w) : w \in forests}

InitTab ==
  /\ injectors \in {AppInjectors, StandaloneInjectors}
  /\ modules = DeclaringModules(injectors)
  /\ nodes \in TabForests
  /\ injectorMap = EmptyMap
  /\ containerInjectorIdToInstance = EmptyMap
  /\ uuidCounter = 0
  /\ requests = 0
  /\ sent = 0
  /\ inbox = <<>>
  /\ collapseSiblingElementInjector = FALSE
  /\ forestWithInjectorPaths = <<>>
  /\ injectorPaths = <<>>
  /\ pathIdx = 0
  /\ localTree = <<>>
  /\ injectorTree = <<>>
  /\ pc = "idle"
  /\ injectorTreeComponent = NoGraph
  /\ messageBus = NoMessages
  /\ pathNode = NoPath
  /\ lastCall = NoCall

NextTab ==
  \/ ReloadInjectorTree
  \/ GetLatestInjectorGraphView
  \/ LatestInjectorGraphView
  \/ InsertNextPath
  \/ InjectorTreeReloaded
  \/ DestroyNode
  \/ NgAfterViewInit
  \/ SetInjectorTree
  \/ NodeClick
  \/ GetProvidersMessage
  \/ ReceiveProviders

SpecTab == InitTab /\ [][NextTab]_vars

\* --------------------------------------------------- resolution path view
\* The body of path.forEach in the path setter for the record at index idx
\* of the reversed path: the modules of its reversed importPath whose owner
\* is not the record's, with position [idx, idx2], then the record with [idx].
Flattened(injector, idx) ==
  LET reversed == IF "importPath" \in DOMAIN injector THEN Reverse(injector.importPath)
                  ELSE <<>>
      imported == [k \in 1..Len(reversed) |->
                     [type |-> reversed[k].type, owner |-> reversed[k].owner,
                      position |-> <<idx, k - 1>>]]
  IN SelectSeq(imported, LAMBDA importedModule : importedModule.owner # injector.owner)
       \o <<[type |-> injector.type, owner |-> injector.owner, position |-> <<idx>>]>>

RECURSIVE FlatPathFrom(_, _)
\* flatPath of the path setter, from index idx of the reversed path on.
FlatPathFrom(path, idx) ==
  IF idx >= Len(path) THEN <<>>
  ELSE Flattened(path[idx + 1], idx) \o FlatPathFrom(path, idx + 1)

\* set path(path): reverse the path to root-first and flatten it.
FlatPath(path) == FlatPathFrom(Reverse(path), 0)

\* findInjector after the trace: the record at injectorPosition[0] of the
\* reversed path, or importPath[injectorPosition[1] + 1] of that record; it
\* throws on .owner of undefined when the importPath has no such index.
findInjector(resolutionPath, injectorPosition) ==
  LET reversed == Reverse(resolutionPath)
      injector == reversed[injectorPosition[1] + 1]
  IN IF Len(injectorPosition) = 2
       THEN IF "importPath" \in DOMAIN injector
                 /\ injectorPosition[2] + 2 <= Len(injector.importPath)
              THEN [outcome |-> "returned",
                    injector |-> injector.importPath[injectorPosition[2] + 2]]
              ELSE [outcome |-> "threw", injector |-> injector]
       ELSE [outcome |-> "returned", injector |-> injector]

\* The path input of the resolution path view is set to the serialized path
\* of the last trace.
SetPath ==
  /\ lastCall.called /\ lastCall.fn = "traceTokenInjectorPath"
  /\ lastCall.outcome = "returned" /\ lastCall.token \in Tokens
  /\ ~SerializeThrows(lastCall.path)
  /\ pathNode' = [element |-> lastCall.element, token |-> lastCall.token,
                  flatPath |-> FlatPath(serializeResolutionPath(lastCall.path))]
  /\ UNCHANGED <<world, backend, messages, collapseSiblingElementInjector, merger, calls,
                 injectorTreeComponent, messageBus>>

\* A click on a node of the resolution path view: inspectInjector emits the
\* position of the node and findInjector looks it up in a new trace of the
\* parameter's token from the element.
FindInjector ==
  /\ \E index \in 1..Len(pathNode.flatPath) :
       LET node == pathNode.flatPath[index]
           trace == traceTokenInjectorPath(pathNode.element, pathNode.token)
           found == findInjector(trace.path, node.position)
       IN lastCall' = [called |-> TRUE, fn |-> "findInjector", element |-> pathNode.element,
                       token |-> pathNode.token, outcome |-> found.outcome,
                       path |-> trace.path, station |-> trace.station,
                       node |-> node, injector |-> found.injector]
  /\ UNCHANGED <<world, backend, messages, collapseSiblingElementInjector, merger, tab>>

NextPosition ==
  \/ TraceTokenInjectorPath
  \/ SetPath
  \/ FindInjector

SpecPosition == InitImports /\ [][NextPosition]_vars

\* ------------------------------------------------ the loops, step by step
\* Records a walk or a trace may hold before its loop is cut off: enough for
\* every chain without a cycle.
MaxWalkPath == MaxElements + 8

\* A chain whose last injector has the injector at position back as parent.
Cyclic(chain, back) == [chain EXCEPT ![Len(chain)].parent = back]

\* Parent chains without a cycle, and chains without a null injector whose
\* parent links run into a cycle.
WalkChains ==
  LET plain == {c \in Chains : Len(c) > 0 /\ \A i \in 1..Len(c) :
                  c[i].provides = "none" \/ (c[i].provides = "truthy" /\ "root" \in c[i].scopes)}
      open == {c \in plain : ~c[Len(c)].isNull}
  IN plain \cup UNION { {Cyclic(c, back) : back \in 1..Len(c)} : c \in open }

\* One iteration of the while loop of traceTokenInjectorPath at injector i.
TraceIteration(i, ngModuleType, token, injectorPath) ==
  LET inj == injectors[i]
      module == [type |-> "Module", owner |-> ClassOf(ngModuleType)]
      isRoot == "environment" \in inj.scopes /\ "root" \in inj.scopes
      isModule == ngModuleType # Undef /\ HasModuleDef(ngModuleType)
      pushed ==
        IF "platform" \in inj.scopes
          THEN Append(injectorPath, [type |-> "Platform", owner |-> ClassOf(inj.ctor)])
        ELSE IF isRoot \/ isModule THEN Append(injectorPath, module)
        ELSE injectorPath
      returns ==
        IF "platform" \in inj.scopes \/ isRoot THEN LookupIsTruthy(i, token)
        ELSE IF isModule THEN LookupFound(i, token)
        ELSE FALSE
      moduleRef == ModuleRefOf(inj.parent)
  IN IF inj.isNull
       THEN [outcome |-> "returned",
             path |-> Append(injectorPath, [type |-> "NullInjector", owner |-> ClassOf(inj.ctor)]),
             station |-> i, ngModuleType |-> ngModuleType]
     ELSE IF returns
       THEN [outcome |-> "returned",
             path |-> IF "platform" \in inj.scopes THEN pushed
                      ELSE Append(injectorPath, ResolvingModule(ngModuleType, token)),
             station |-> i, ngModuleType |-> ngModuleType]
     ELSE IF moduleRef \in {Undef, "null", "noinstance"}
       THEN [outcome |-> "threw", path |-> pushed, station |-> i,
             ngModuleType |-> ngModuleType]
     ELSE [outcome |-> "running", path |-> pushed, station |-> NextInjector(i),
           ngModuleType |-> moduleRef]

\* The while loop of the last call has not ended.
Running == IF lastCall.called THEN lastCall.outcome = "running" ELSE FALSE

\* getInjectorResolutionPath(element) up to its while loop: the Element
\* records, and the return when the first injector has no module type.
StartWalk ==
  /\ ~Running
  /\ \E n \in 1..Len(nodes) :
       LET start == nodes[n].envStart
           ngModuleType == ModuleTypeOf(ModuleRefOf(start))
       IN lastCall' = [called |-> TRUE, fn |-> "getInjectorResolutionPath", element |-> n,
                       token |-> "",
                       outcome |-> IF ngModuleType = Undef THEN "returned" ELSE "running",
                       path |-> ElementRecords(n),
                       station |-> IF ngModuleType = Undef THEN 0 ELSE start,
                       ngModuleType |-> ngModuleType]
  /\ UNCHANGED <<world, backend, messages, collapseSiblingElementInjector, merger, tab>>

\* An iteration of the walker's loop that also stops at the platform injector.
StepWalkStoppingAtPlatform ==
  /\ Running /\ lastCall.fn = "getInjectorResolutionPath"
  /\ Len(lastCall.path) < MaxWalkPath
  /\ LET i == lastCall.station IN
     lastCall' =
       IF i = 0 THEN [lastCall EXCEPT !.outcome = "returned"]
       ELSE IF injectors[i].isNull \/ "platform" \in injectors[i].scopes
         THEN [lastCall EXCEPT !.outcome = "returned",
                               !.path = @ \o ClassifyInjector(i, lastCall.ngModuleType)]
       ELSE [lastCall EXCEPT !.path = @ \o ClassifyInjector(i, lastCall.ngModuleType),
                             !.station = NextInjector(i),
                             !.ngModuleType = ModuleTypeOf(ModuleRefOf(injectors[i].parent))]
  /\ UNCHANGED <<world, backend, messages, collapseSiblingElementInjector, merger, tab>>

\* One iteration of while (injector !== undefined) in getInjectorResolutionPath:
\* leave the loop when there is no injector, push and break at the null
\* injector, else push the record of the injector and go to its parent.
StepWalk ==
  /\ Running /\ lastCall.fn = "getInjectorResolutionPath"
  /\ Len(lastCall.path) < MaxWalkPath
  /\ LET i == lastCall.station IN
     lastCall' =
       IF i = 0 THEN [lastCall EXCEPT !.outcome = "returned"]
       ELSE IF injectors[i].isNull
         THEN [lastCall EXCEPT !.outcome = "returned",
                               !.path = @ \o ClassifyInjector(i, lastCall.ngModuleType)]
       ELSE [lastCall EXCEPT !.path = @ \o ClassifyInjector(i, lastCall.ngModuleType),
                             !.station = NextInjector(i),
                             !.ngModuleType = ModuleTypeOf(ModuleRefOf(injectors[i].parent))]
  /\ UNCHANGED <<world, backend, messages, collapseSiblingElementInjector, merger, tab>>

\* traceTokenInjectorPath(element, tokenToTrace) up to its while loop: the
\* loop over the debug nodes.
StartTrace ==
  /\ ~Running
  /\ \E n \in 1..Len(nodes), token \in Tokens :
       LET onElements == TraceElements(n, getInjectorPath(n), 1, token, <<>>)
           start == nodes[n].envStart
       IN lastCall' = [called |-> TRUE, fn |-> "traceTokenInjectorPath", element |-> n,
                       token |-> token,
                       outcome |-> IF onElements.outcome = "continue" THEN "running"
                                   ELSE onElements.outcome,
                       path |-> onElements.path,
                       station |-> IF onElements.outcome = "continue" THEN start
                                   ELSE onElements.station,
                       ngModuleType |-> ModuleTypeOf(ModuleRefOf(start))]
  /\ UNCHANGED <<world, backend, messages, collapseSiblingElementInjector, merger, tab>>

\* One iteration of while (injector !== undefined) in traceTokenInjectorPath.
StepTrace ==
  /\ Running /\ lastCall.fn = "traceTokenInjectorPath"
  /\ Len(lastCall.path) < MaxWalkPath
  /\ LET i == lastCall.station
         r == TraceIteration(i, lastCall.ngModuleType, lastCall.token, lastCall.path)
     IN lastCall' =
          IF i = 0 THEN [lastCall EXCEPT !.outcome = "returned"]
          ELSE [lastCall EXCEPT !.outcome = r.outcome, !.path = r.path,
                                !.station = r.station, !.ngModuleType = r.ngModuleType]
  /\ UNCHANGED <<world, backend, messages, collapseSiblingElementInjector, merger, tab>>

InitWalk ==
  /\ injectors \in WalkChains
  /\ modules = DeclaringModules(injectors)
  /\ nodes \in {w \in UNION {ElementChains(n, 1) : n \in 1..MaxElements} :
                  \A i \in 1..Len(w) : ~w[i].selfSpecial}
  /\ injectorMap = EmptyMap
  /\ containerInjectorIdToInstance = EmptyMap
  /\ uuidCounter = 0
  /\ requests = 0
  /\ sent = 0
  /\ inbox = <<>>
  /\ collapseSiblingElementInjector = FALSE
  /\ forestWithInjectorPaths = <<>>
  /\ injectorPaths = <<>>
  /\ pathIdx = 0
  /\ localTree = <<>>
  /\ injectorTree = <<>>
  /\ pc = "idle"
  /\ injectorTreeComponent = NoGraph
  /\ messageBus = NoMessages
  /\ pathNode = NoPath
  /\ lastCall = NoCall

NextWalk ==
  \/ StartWalk
  \/ StepWalk
  \/ StartTrace
  \/ StepTrace

\* A loop that has started runs on: the functions are synchronous.
SpecWalk == InitWalk /\ [][NextWalk]_vars /\ WF_vars(StepWalk) /\ WF_vars(StepTrace)

\* ============================================================ properties
\* The merge of the received forest has inserted every path.
MergeDone == pc = "merging" /\ pathIdx = Len(injectorPaths)

\* The paths inserted so far.
Inserted == SubSeq(injectorPaths, 1, pathIdx)

\* A record of a path as the insertion loop holds it.
RecordsOf(paths) ==
  UNION { {WithNode(paths[i].path[k], paths[i].node) : k \in 1..Len(paths[i].path)} :
            i \in 1..Len(paths) }

\* A record without the node the merger attached to it.
Bare(injector) == [type |-> injector.type, owner |-> injector.owner, id |-> injector.id]

RECURSIVE Shape(_)
\* The shape of a tree level without labels and without sibling order: the
\* multiset of the shapes below its entries.
Shape(level) ==
  LET below == [i \in 1..Len(level) |-> Shape(level[i].children)]
      shapes == {below[i] : i \in 1..Len(level)}
  IN [s \in shapes |-> Cardinality({i \in 1..Len(level) : below[i] = s})]

RECURSIVE TreeSize(_)
TreeSize(level) ==
  LET Sum[k \in 0..Len(level)] ==
        IF k = 0 THEN 0 ELSE Sum[k - 1] + 1 + TreeSize(level[k].children)
  IN Sum[Len(level)]

\* The paths in the order given by the permutation f of their indices.
Reordered(paths, f) == [i \in 1..Len(paths) |-> paths[f[i]]]

\* C2: the merge is order-independent: for the toggle of the merge, inserting
\* the paths of the received forest in any order gives a tree of the same
\* shape (siblings in any order) as the tree the merge built.
C2_MergeOrderIndependent ==
  MergeDone =>
    \A f \in Permutations(1..Len(injectorPaths)) :
      Shape(MergePaths(<<>>, Reordered(injectorPaths, f), collapseSiblingElementInjector))
        = Shape(localTree)

RECURSIVE LeafPaths(_, _)
\* The root-to-leaf paths of a tree level, depth first, each below prefix.
LeafPaths(level, prefix) ==
  LET Upto[k \in 0..Len(level)] ==
        IF k = 0 THEN <<>>
        ELSE LET here == Append(prefix, Bare(level[k].injector))
             IN Upto[k - 1] \o (IF Len(level[k].children) = 0 THEN <<here>>
                                ELSE LeafPaths(level[k].children, here))
  IN Upto[Len(level)]

\* Root-first paths as the merger takes them: each is the resolution path,
\* reversed, of a node of its own.
AsInjectorPaths(rootFirst) ==
  [i \in 1..Len(rootFirst) |->
     [node |-> [resolutionPath |-> Reverse(rootFirst[i])], path |-> rootFirst[i]]]

RECURSIVE BareTree(_)
\* A tree without the nodes the merger attached to its records.
BareTree(level) ==
  [i \in 1..Len(level) |->
     [injector |-> Bare(level[i].injector), children |-> BareTree(level[i].children)]]

\* C3: the merge is idempotent: merging the root-to-leaf paths of the merged
\* tree gives the merged tree again, and inserting a path that was already
\* inserted adds no node.
C3_MergeIdempotent ==
  /\ MergeDone =>
       BareTree(MergePaths(<<>>, AsInjectorPaths(LeafPaths(localTree, <<>>)),
                           collapseSiblingElementInjector))
         = BareTree(localTree)
  /\ pc = "merging" =>
       \A i \in 1..pathIdx :
         InsertPath(localTree, injectorPaths[i].path, injectorPaths[i].node, 1,
                    collapseSiblingElementInjector) = localTree

\* A merge of several paths that share records is done, under either toggle.
C3_Witness ==
  /\ MergeDone
  /\ collapseSiblingElementInjector
  /\ Len(injectorPaths) = 3
  /\ TreeSize(localTree) >= 5
  /\ \E i \in 1..Len(localTree) : Len(localTree[i].children) > 0

RECURSIVE ChainMatches(_, _, _)
\* The level is a chain of single entries whose records are the records k,
\* k - 1, ..., 1 of the resolution path.
ChainMatches(level, resolutionPath, k) ==
  IF k = 0 THEN Len(level) = 0
  ELSE /\ Len(level) = 1
       /\ Bare(level[1].injector) = resolutionPath[k]
       /\ ChainMatches(level[1].children, resolutionPath, k - 1)

\* C4: merging a single resolution path gives a chain with one entry per level
\* and one entry per record, the last record of the path at the root.
C4_SinglePathIsChain ==
  (MergeDone /\ Len(injectorPaths) = 1) =>
    LET resolutionPath == injectorPaths[1].node.resolutionPath
    IN ChainMatches(localTree, resolutionPath, Len(resolutionPath))

\* A single path of an element and three environment injectors was merged.
C4_Witness ==
  /\ MergeDone
  /\ Len(injectorPaths) = 1
  /\ Len(injectorPaths[1].path) >= 4
  /\ TreeSize(localTree) = Len(injectorPaths[1].path)

RECURSIVE Landing(_, _, _, _, _)
\* Where the records of a path, from record k on, end up in the tree: the
\* record of the entry each one is equal to, level by level; the sequence
\* stops where the path leaves the tree.
Landing(level, path, node, k, collapse) ==
  IF k > Len(path) THEN <<>>
  ELSE LET at == pathExists(level, WithNode(path[k], node), collapse)
       IN IF at = 0 THEN <<>>
          ELSE <<level[at].injector>> \o Landing(level[at].children, path, node, k + 1, collapse)

\* The entries of the tree a path leads to, as indices level by level.
RECURSIVE Position(_, _, _, _, _)
Position(level, path, node, k, collapse) ==
  IF k > Len(path) THEN <<>>
  ELSE LET at == pathExists(level, WithNode(path[k], node), collapse)
       IN IF at = 0 THEN <<0>>
          ELSE <<at>> \o Position(level[at].children, path, node, k + 1, collapse)

\* The path of a node that ends at the node's own element injector.
EndsAtOwnElement(p) ==
  /\ Len(p.path) > 0
  /\ p.path[Len(p.path)].type = "Element"

\* The ids of the records of a path.
Ids(path) == [k \in 1..Len(path) |-> path[k].id]

\* The collapse rule on two nodes' own elements: same label, same length of
\* the resolution path, same ancestor ids.
Collapsible(p, q) ==
  /\ EndsAtOwnElement(p) /\ EndsAtOwnElement(q)
  /\ p.path[Len(p.path)].owner = q.path[Len(q.path)].owner
  /\ Len(p.path) = Len(q.path)
  /\ Tail(Ids(p.node.resolutionPath)) = Tail(Ids(q.node.resolutionPath))

\* The scenario: three elements, each with one element injector, below the
\* same environment injectors; the first two host the same directives, the
\* third does not.
ThreeElements ==
  /\ Len(injectorPaths) = 3
  /\ \A i \in 1..3 :
       /\ Len(injectorPaths[i].path) >= 2
       /\ EndsAtOwnElement(injectorPaths[i])
       /\ injectorPaths[i].path[Len(injectorPaths[i].path) - 1].type = "Module"
       /\ Len(injectorPaths[i].path) = Len(injectorPaths[1].path)
       /\ Tail(Ids(injectorPaths[i].node.resolutionPath))
            = Tail(Ids(injectorPaths[1].node.resolutionPath))
  /\ Cardinality({injectorPaths[i].path[Len(injectorPaths[i].path)].id : i \in 1..3}) = 3
  /\ \E a, b, c \in 1..3 :
       /\ {a, b, c} = 1..3
       /\ Collapsible(injectorPaths[a], injectorPaths[b])
       /\ ~Collapsible(injectorPaths[a], injectorPaths[c])

RECURSIVE ChildrenBelow(_, _)
\* The children of the entry at the end of a chain of depth single entries.
ChildrenBelow(level, depth) ==
  IF depth = 0 THEN level
  ELSE IF Len(level) # 1 THEN <<>>
  ELSE ChildrenBelow(level[1].children, depth - 1)

C5_WitnessDisabled == MergeDone /\ ThreeElements /\ ~collapseSiblingElementInjector

RECURSIVE NoEqualSiblings(_, _)
\* No two entries of a level, or of a level below it, are equal.
NoEqualSiblings(level, collapse) ==
  /\ \A i, j \in 1..Len(level) :
       i # j => ~equalNode(level[i].injector, level[j].injector, collapse)
  /\ \A i \in 1..Len(level) : NoEqualSiblings(level[i].children, collapse)

C7_NonElementsEqualById ==
  pc = "merging" =>
    /\ \A a, b \in RecordsOf(injectorPaths) : \A collapse \in BOOLEAN :
         (a.type # "Element" \/ b.type # "Element") =>
           (equalNode(a, b, collapse) <=> a.id = b.id)
    /\ \A i \in 1..pathIdx :
         LET path == injectorPaths[i].path
             landing == Landing(localTree, path, injectorPaths[i].node, 1,
                                collapseSiblingElementInjector)
         IN /\ Len(landing) = Len(path)
            /\ \A k \in 1..Len(path) :
                 (path[k].type # "Element" \/ landing[k].type # "Element") =>
                   landing[k].id = path[k].id

\* With collapse enabled, the paths hold two module records of different ids
\* and an element record.
C7_Witness ==
  /\ MergeDone
  /\ collapseSiblingElementInjector
  /\ \E a, b, c \in RecordsOf(injectorPaths) :
       a.type = "Module" /\ b.type = "Module" /\ a.id # b.id /\ c.type = "Element"

\* C8: the merged tree has a single root.
C8_SingleRoot == MergeDone => Len(localTree) = 1

\* C9: every node of the received forest that carries a resolution path has
\* it in the merged tree: a chain from a root downward that is equal to it
\* record for record.
C9_EveryPathInTree ==
  MergeDone =>
    \A n \in 1..Len(forestWithInjectorPaths) :
      forestWithInjectorPaths[n].hasPath =>
        LET node == [resolutionPath |-> forestWithInjectorPaths[n].resolutionPath]
            path == Reverse(forestWithInjectorPaths[n].resolutionPath)
        IN Len(Landing(localTree, path, node, 1, collapseSiblingElementInjector)) = Len(path)

RECURSIVE InSubtree(_, _, _)
\* Node n of the forest is node root or below it.
InSubtree(forest, n, root) ==
  IF n = root THEN TRUE
  ELSE IF forest[n].parent = 0 THEN FALSE
  ELSE InSubtree(forest, forest[n].parent, root)

\* The same for the nodes of the first root of the forest.
C9_EveryPathOfFirstRootInTree ==
  MergeDone =>
    \A n \in 1..Len(forestWithInjectorPaths) :
      (forestWithInjectorPaths[n].hasPath /\ InSubtree(forestWithInjectorPaths, n, 1)) =>
        LET node == [resolutionPath |-> forestWithInjectorPaths[n].resolutionPath]
            path == Reverse(forestWithInjectorPaths[n].resolutionPath)
        IN Len(Landing(localTree, path, node, 1, collapseSiblingElementInjector)) = Len(path)

\* The same with sibling collapse disabled.
C2_OrderIndependentWithoutCollapse ==
  (MergeDone /\ ~collapseSiblingElementInjector) =>
    \A f \in Permutations(1..Len(injectorPaths)) :
      Shape(MergePaths(<<>>, Reordered(injectorPaths, f), FALSE)) = Shape(localTree)

RECURSIVE EnvironmentChain(_)
\* The environment injectors of a chain from injector i on, in the order the
\* walker visits them.
EnvironmentChain(i) ==
  IF i = 0 THEN <<>>
  ELSE IF injectors[i].isNull THEN <<i>>
  ELSE <<i>> \o EnvironmentChain(NextInjector(i))

\* The injector chain of the element of node n, most specific first: -el for
\* the node injector of element el, i for environment injector i.
InjectorChain(n) ==
  LET els == getInjectorPath(n)
  IN [k \in 1..Len(els) |-> -els[k]] \o EnvironmentChain(nodes[n].envStart)

\* The injector at a place of the chain provides a class token itself: a node
\* injector by the providers and viewProviders of its element, an environment
\* injector by its self lookup.
Satisfies(place, token) ==
  IF place < 0 THEN ProvidedOnElement(-place, token) ELSE LookupFound(place, token)

\* C1: a trace of a class token that returns a path ends at the first injector
\* of the element's chain that provides the token: the path stops at that
\* injector and no injector before it in the chain provides the token.
C1_TraceEndsAtFirstProvider ==
  (lastCall.called /\ lastCall.fn = "traceTokenInjectorPath"
     /\ lastCall.outcome = "returned" /\ lastCall.token \in Tokens
     /\ ~isSpecialToken(lastCall.token)
     /\ \E k \in 1..Len(InjectorChain(lastCall.element)) :
          Satisfies(InjectorChain(lastCall.element)[k], lastCall.token)) =>
    LET chain == InjectorChain(lastCall.element)
        first == CHOOSE k \in 1..Len(chain) :
                   /\ Satisfies(chain[k], lastCall.token)
                   /\ \A j \in 1..(k - 1) : ~Satisfies(chain[j], lastCall.token)
    IN lastCall.station = chain[first]

\* The same for a chain on which no root injector comes before the injector
\* that provides the token.
C1_TraceEndsAtFirstProviderBelowRoot ==
  (lastCall.called /\ lastCall.fn = "traceTokenInjectorPath"
     /\ lastCall.outcome = "returned" /\ lastCall.token \in Tokens
     /\ ~isSpecialToken(lastCall.token)
     /\ \E k \in 1..Len(InjectorChain(lastCall.element)) :
          /\ Satisfies(InjectorChain(lastCall.element)[k], lastCall.token)
          /\ \A j \in 1..(k - 1) :
               LET at == InjectorChain(lastCall.element)[j]
               IN at > 0 => "root" \notin injectors[at].scopes) =>
    LET chain == InjectorChain(lastCall.element)
        first == CHOOSE k \in 1..Len(chain) :
                   /\ Satisfies(chain[k], lastCall.token)
                   /\ \A j \in 1..(k - 1) : ~Satisfies(chain[j], lastCall.token)
    IN lastCall.station = chain[first]

\* C10: a path getInjectorResolutionPath returns ends in a boundary record,
\* of kind NullInjector or Platform.
C10_PathEndsAtBoundary ==
  (lastCall.called /\ lastCall.fn = "getInjectorResolutionPath"
     /\ lastCall.outcome = "returned") =>
    /\ Len(lastCall.path) > 0
    /\ lastCall.path[Len(lastCall.path)].type \in {"NullInjector", "Platform"}

\* The same for a view whose injector chain starts at an injector with a
\* module instance and ends at the platform or the null injector.
C10_PathEndsAtBoundaryWithModule ==
  (lastCall.called /\ lastCall.fn = "getInjectorResolutionPath"
     /\ lastCall.outcome = "returned"
     /\ nodes[lastCall.element].envStart # 0
     /\ ModuleTypeOf(ModuleRefOf(nodes[lastCall.element].envStart)) # Undef
     /\ LET chain == EnvironmentChain(nodes[lastCall.element].envStart)
        IN injectors[chain[Len(chain)]].isNull
             \/ "platform" \in injectors[chain[Len(chain)]].scopes) =>
    /\ Len(lastCall.path) > 0
    /\ lastCall.path[Len(lastCall.path)].type \in {"NullInjector", "Platform"}

\* C11: on an element without a view context getInjectorResolutionPath returns
\* null, and traceTokenInjectorPath returns null for every token (the empty
\* path when the token itself is null); neither throws.
C11_NoContextReturnsNull ==
  (lastCall.called /\ ~HasLContext(lastCall.element)) =>
    /\ lastCall.outcome # "threw"
    /\ lastCall.path = <<>>
    /\ lastCall.outcome = "null"
         \/ (lastCall.fn = "traceTokenInjectorPath" /\ lastCall.token = NullToken
               /\ lastCall.outcome = "returned")

\* A class token was traced on an element without a view context.
C11_Witness ==
  /\ lastCall.called
  /\ ~HasLContext(lastCall.element)
  /\ lastCall.fn = "traceTokenInjectorPath"
  /\ lastCall.token = "Service"
  /\ lastCall.outcome = "null"

\* The chain of the element of node n ends at the null injector.
EndsAtNullInjector(n) ==
  LET chain == EnvironmentChain(nodes[n].envStart)
  IN Len(chain) > 0 /\ injectors[chain[Len(chain)]].isNull

\* C12: when no injector of the chain provides a class token, the trace
\* returns, without throwing, the whole path ending in a NullInjector record.
C12_UnresolvedEndsAtNullInjector ==
  (lastCall.called /\ lastCall.fn = "traceTokenInjectorPath"
     /\ lastCall.token \in Tokens /\ ~isSpecialToken(lastCall.token)
     /\ HasLContext(lastCall.element)
     /\ EndsAtNullInjector(lastCall.element)
     /\ \A k \in 1..Len(InjectorChain(lastCall.element)) :
          ~Satisfies(InjectorChain(lastCall.element)[k], lastCall.token)) =>
    /\ lastCall.outcome = "returned"
    /\ Len(lastCall.path) > 0
    /\ lastCall.path[Len(lastCall.path)].type = "NullInjector"

\* The same without the requirement that the trace returns: a trace of an
\* unprovided class token that returns ends in a NullInjector record.
C12_UnresolvedReturnEndsAtNullInjector ==
  (lastCall.called /\ lastCall.fn = "traceTokenInjectorPath"
     /\ lastCall.token \in Tokens /\ ~isSpecialToken(lastCall.token)
     /\ HasLContext(lastCall.element)
     /\ EndsAtNullInjector(lastCall.element)
     /\ lastCall.outcome = "returned"
     /\ \A k \in 1..Len(InjectorChain(lastCall.element)) :
          ~Satisfies(InjectorChain(lastCall.element)[k], lastCall.token)) =>
    /\ Len(lastCall.path) > 0
    /\ lastCall.path[Len(lastCall.path)].type = "NullInjector"

\* A trace of an unprovided class token threw.
C12_NeverThrows ==
  (lastCall.called /\ lastCall.fn = "traceTokenInjectorPath"
     /\ lastCall.token \in Tokens /\ ~isSpecialToken(lastCall.token)
     /\ HasLContext(lastCall.element)
     /\ EndsAtNullInjector(lastCall.element)
     /\ \A k \in 1..Len(InjectorChain(lastCall.element)) :
          ~Satisfies(InjectorChain(lastCall.element)[k], lastCall.token)) =>
    lastCall.outcome # "threw"

\* The module type of the injector a trace returned at.
ResolvingType == ModuleTypeOf(ModuleRefOf(lastCall.station))

\* The class token is declared by ImpModule only, which MidModule imports,
\* which the module type imports.
ImportedThroughMid(moduleType) ==
  /\ modules[moduleType].imports = <<"MidModule">>
  /\ modules["MidModule"].imports = <<"ImpModule">>
  /\ \E k \in 1..Len(modules["ImpModule"].providers) :
       modules["ImpModule"].providers[k] = "Service"
  /\ modules[moduleType].providers = <<>>

\* C13: when the token is declared by ImpModule, imported by MidModule,
\* imported by the module of the resolving injector, the Module record of the
\* resolving injector carries the import path resolving module, MidModule,
\* ImpModule, whether or not MidModule declares providers itself.
C13_ImportPathThroughMid ==
  (lastCall.called /\ lastCall.fn = "traceTokenInjectorPath"
     /\ lastCall.token = "Service" /\ lastCall.outcome = "returned"
     /\ lastCall.station > 0
     /\ ResolvingType # Undef
     /\ ImportedThroughMid(ResolvingType)) =>
    LET last == lastCall.path[Len(lastCall.path)]
    IN /\ last.type = "Module"
       /\ last.owner = ClassOf(ResolvingType)
       /\ [k \in 1..Len(last.importPath) |-> last.importPath[k].owner.name]
            = <<ResolvingType, "MidModule", "ImpModule">>
       /\ last.importedFrom.owner = ClassOf("ImpModule")

\* The root injector resolved the token through a MidModule that declares a
\* provider of its own.
C13_Witness ==
  /\ lastCall.called /\ lastCall.fn = "traceTokenInjectorPath"
  /\ lastCall.token = "Service" /\ lastCall.outcome = "returned"
  /\ lastCall.station > 0
  /\ ResolvingType = "AppModule"
  /\ ImportedThroughMid("AppModule")
  /\ modules["MidModule"].providers = <<"Config">>
  /\ Len(lastCall.path[Len(lastCall.path)].importPath) = 3

\* The injector of the lazily loaded module resolved the token through
\* MidModule.
C13_WitnessLazy ==
  /\ lastCall.called /\ lastCall.fn = "traceTokenInjectorPath"
  /\ lastCall.token = "Service" /\ lastCall.outcome = "returned"
  /\ lastCall.station > 0
  /\ ResolvingType = "LazyModule"
  /\ ImportedThroughMid("LazyModule")

\* The records of the last call's path that carry an importPath.
WithImportPath ==
  {k \in 1..Len(lastCall.path) : "importPath" \in DOMAIN lastCall.path[k]}

C14_ImportPathOnlyOnResolver ==
  (lastCall.called /\ lastCall.outcome = "returned") =>
    \A k \in WithImportPath :
      /\ lastCall.path[k].type = "Module"
      /\ lastCall.station > 0
      /\ LookupFound(lastCall.station, lastCall.token)

SelfProviding(n, token) ==
  {k \in 1..Len(getInjectorPath(n)) : SelfLookupOnElement(getInjectorPath(n)[k], token)}

\* C15: a trace of a token with the framework-builtin marker, started on an
\* element with a node injector of its own, returns at the
\* first Element record whose own injector answers a self-only, optional
\* lookup, so at an ancestor when the starting element does not answer it; it
\* returns at an Element record only if that record's injector answers it.
C15_SpecialTokenEndsAtFirstSelfLookup ==
  (lastCall.called /\ lastCall.fn = "traceTokenInjectorPath"
     /\ lastCall.token \in Tokens /\ isSpecialToken(lastCall.token)
     /\ lastCall.outcome = "returned"
     /\ nodes[lastCall.element].hasInjector) =>
    LET chain == getInjectorPath(lastCall.element)
        providing == SelfProviding(lastCall.element, lastCall.token)
    IN /\ providing # {} =>
            \E k \in providing :
              /\ \A j \in providing : k <= j
              /\ lastCall.station = -chain[k]
              /\ Len(lastCall.path) = k
       /\ lastCall.station < 0 => SelfLookupOnElement(-lastCall.station, lastCall.token)

\* The forest the last rebuild emitted.
LatestForest == inbox[Len(inbox)]

\* A rebuild has run and the component tree is as that rebuild found it: the
\* tree only ever loses its last node or the view of that node, so it is
\* unchanged while it has as many nodes as the emitted forest, all with a view.
Fresh ==
  /\ Len(inbox) > 0
  /\ Len(LatestForest) = Len(nodes)
  /\ \A n \in 1..Len(nodes) : nodes[n].context

\* The records of the latest forest, as <<node, position in its path>>.
Slots ==
  UNION { {<<n, k>> : k \in 1..Len(LatestForest[n].resolutionPath)} :
            n \in 1..Len(LatestForest) }

\* The serialized record at a slot, and the record of the walker it was made
\* from.
Emitted(slot) == LatestForest[slot[1]].resolutionPath[slot[2]]
Walked(slot) == getInjectorResolutionPath(slot[1])[slot[2]]

ElementSlots == {slot \in Slots : Emitted(slot).type = "Element"}
ContainerSlots == {slot \in Slots : Emitted(slot).type # "Element"}

\* C16: within one rebuild two Element records have the same id if and only
\* if they belong to the same DOM node, whatever their labels.
C16_ElementIdIffSameDomNode ==
  Fresh =>
    \A a \in ElementSlots, b \in ElementSlots :
      (Emitted(a).id = Emitted(b).id) <=> (Walked(a).owner = Walked(b).owner)

\* One rebuild serialized two DOM nodes with the same label under different
\* ids, and one DOM node on the paths of two nodes under one id.
C16_Witness ==
  /\ Fresh
  /\ \E a \in ElementSlots, b \in ElementSlots :
       /\ Walked(a).owner # Walked(b).owner
       /\ Emitted(a).owner = Emitted(b).owner
       /\ Emitted(a).id # Emitted(b).id
  /\ \E a \in ElementSlots, b \in ElementSlots :
       /\ a[1] # b[1]
       /\ Walked(a).owner = Walked(b).owner
       /\ Emitted(a).id = Emitted(b).id

\* C17: within one rebuild two records that are not Element records have the
\* same id if and only if they were built from the same injector instance.
C17_ContainerIdIffSameInstance ==
  Fresh =>
    \A a \in ContainerSlots, b \in ContainerSlots :
      (Emitted(a).id = Emitted(b).id) <=> (Walked(a).instance = Walked(b).instance)

\* C17, one direction: the records of one injector instance have one id.
C17_SameInstanceSameId ==
  Fresh =>
    \A a \in ContainerSlots, b \in ContainerSlots :
      (Walked(a).instance = Walked(b).instance) => (Emitted(a).id = Emitted(b).id)

\* The ids of the records of an emitted forest.
IdsOf(forest) ==
  UNION { {forest[n].resolutionPath[k].id : k \in 1..Len(forest[n].resolutionPath)} :
            n \in 1..Len(forest) }

\* Two rebuilds have run on the same component tree.
TwoRebuildsOfOneTree == Len(inbox) = 2 /\ Len(inbox[1]) = Len(inbox[2])

\* C18: two successive rebuilds of the same tree give every record, so every
\* live injector, the same id in both.
C18_SameIdAcrossRebuilds ==
  TwoRebuildsOfOneTree =>
    \A n \in 1..Len(inbox[1]) : \A k \in 1..Len(inbox[1][n].resolutionPath) :
      inbox[1][n].resolutionPath[k].id = inbox[2][n].resolutionPath[k].id

\* C18, as the code has it: every rebuild clears the map and draws new ids,
\* so no id of one rebuild is emitted again by a later one.
C18_FreshIdsEachRebuild ==
  \A i \in 1..Len(inbox), j \in 1..Len(inbox) :
    i # j => IdsOf(inbox[i]) \cap IdsOf(inbox[j]) = {}

\* Two rebuilds of one tree serialized the same environment injector.
C18_Witness ==
  /\ TwoRebuildsOfOneTree
  /\ Fresh
  /\ \E slot \in ContainerSlots :
       /\ inbox[1][slot[1]].resolutionPath[slot[2]].type = Emitted(slot).type
       /\ inbox[1][slot[1]].resolutionPath[slot[2]].id # Emitted(slot).id

\* The owners the walker returns for the nodes of the component tree.
VisitedOwners == {Walked(slot).owner : slot \in Slots}

\* C19: every rebuild request clears the identity map before it visits a
\* node, and no other handler touches the map: as long as the tree is as the
\* last rebuild found it, the map holds exactly the owners that rebuild
\* visited, whatever was in the map before and whatever getProviders and
\* traceInjectorParameterResolutionPath requests were served since.
C19_MapHoldsOwnersOfLastRebuild ==
  Fresh => DOMAIN injectorMap = VisitedOwners

\* A second rebuild ran after the tree lost a node, and a getProviders
\* request for an id of that rebuild was served after it.
C19_Witness ==
  /\ Fresh
  /\ Len(inbox) = 2
  /\ Len(inbox[1]) > Len(inbox[2])
  /\ IdsOf(inbox[1]) # {}
  /\ lastCall.called /\ lastCall.fn = "getProviders"
  /\ lastCall.id \in IdsOf(inbox[2])

\* A trace request was served after a rebuild.
C19_WitnessTrace ==
  /\ Fresh
  /\ lastCall.called /\ lastCall.fn = "traceInjectorParameterResolutionPath"
  /\ lastCall.outcome = "returned"
  /\ DOMAIN injectorMap # {}

\* C20: for every record of the latest tree that is not an Element record
\* the side table maps the record's id to the injector instance the record
\* was built from.
C20_SideTableHoldsInstance ==
  Fresh =>
    \A slot \in ContainerSlots :
      /\ Emitted(slot).id \in DOMAIN containerInjectorIdToInstance
      /\ containerInjectorIdToInstance[Emitted(slot).id] = Walked(slot).instance

\* C20, on a tree in which no two injector instances share an id: the side
\* table maps every such id to the instance of its record.
C20_SideTableHoldsInstanceWithoutSharedIds ==
  (Fresh /\ \A a \in ContainerSlots, b \in ContainerSlots :
              Emitted(a).id = Emitted(b).id => Walked(a).instance = Walked(b).instance) =>
    \A slot \in ContainerSlots :
      /\ Emitted(slot).id \in DOMAIN containerInjectorIdToInstance
      /\ containerInjectorIdToInstance[Emitted(slot).id] = Walked(slot).instance

\* The rebuild requests the backend has handled: every request sent except
\* the getLatestInjectorGraphView requests still in flight.
RebuildsHandled == sent - requests

\* C21: every rebuild request ends with a latestInjectorGraphView message,
\* also when the walker returns null for a node of the forest.
C21_EveryRebuildEmits ==
  Len(inbox) = RebuildsHandled

\* An element with neither a component nor a directive.
IsAnchor(el) == nodes[el].component = "" /\ Len(nodes[el].directives) = 0

\* The positions of the anchors on the element chain of element n.
AnchorsOn(n) == {k \in 1..Len(getInjectorPath(n)) : IsAnchor(getInjectorPath(n)[k])}

\* A label that names nothing.
EmptyLabel(owner) == owner \in {<<"">>, <<Undef>>}

\* The last call traced a token from an element with a view context.
TracedFromElement ==
  /\ lastCall.called
  /\ lastCall.fn \in {"traceInjectorParameterResolutionPath", "getLatestComponentExplorerView"}
  /\ lastCall.element \in 1..Len(nodes)
  /\ HasLContext(lastCall.element)

\* C22: the Element record of an anchor is serialized with a label that
\* names nothing, without throwing: in the latest rebuilt forest, and in a
\* token trace whose element chain reaches the anchor before any element
\* provides the token.
C22_AnchorSerializedWithEmptyLabel ==
  /\ Fresh =>
       \A slot \in ElementSlots :
         IsAnchor(Walked(slot).owner.el) => EmptyLabel(Emitted(slot).owner)
  /\ TracedFromElement =>
       \A k \in AnchorsOn(lastCall.element) :
         (\A j \in 1..(k - 1) :
            ~ProvidedOnElement(getInjectorPath(lastCall.element)[j], lastCall.token)) =>
           /\ Len(lastCall.path) >= k
           /\ EmptyLabel(lastCall.path[k].owner)

\* C22, the rebuild alone: the Element record of an anchor is emitted with a
\* label that names nothing.
C22_AnchorLabelInRebuild ==
  Fresh =>
    \A slot \in ElementSlots :
      IsAnchor(Walked(slot).owner.el) => EmptyLabel(Emitted(slot).owner)

\* Injector i is a synthetic wrapping module injector: its source is
\* AppModule and it has no module ref of its own.
IsWrapper(i) == i # 0 /\ injectors[i].source = "AppModule" /\ ModuleRefOf(i) = "null"

\* C23, the walker: no record of a walk was built from a wrapping injector,
\* and the walk returns.
C23_WalkSkipsWrapper ==
  (lastCall.called /\ lastCall.fn = "getInjectorResolutionPath"
     /\ HasLContext(lastCall.element)) =>
    /\ lastCall.outcome = "returned"
    /\ \A k \in 1..Len(lastCall.path) :
         lastCall.path[k].type # "Element" => ~IsWrapper(lastCall.path[k].instance)

\* C23: a wrapping injector yields no record of a walk, and neither the walk
\* nor the trace throws at the step that skips a wrapping injector.
C23_WrapperSkippedWithoutThrowing ==
  (lastCall.called /\ HasLContext(lastCall.element)) =>
    /\ lastCall.fn = "getInjectorResolutionPath" =>
         /\ lastCall.outcome = "returned"
         /\ \A k \in 1..Len(lastCall.path) :
              lastCall.path[k].type # "Element" => ~IsWrapper(lastCall.path[k].instance)
    /\ (lastCall.fn = "traceTokenInjectorPath" /\ lastCall.outcome = "threw"
          /\ lastCall.station > 0) =>
         ~IsWrapper(injectors[lastCall.station].parent)

\* The record the classification rule gives injector i by its own scopes and
\* its own module type, as a sequence of zero or one <<kind, injector>>.
ClassifiedByRule(i) ==
  LET own == ModuleTypeOf(ModuleRefOf(i)) IN
  IF injectors[i].isNull THEN << <<"NullInjector", i>> >>
  ELSE IF "platform" \in injectors[i].scopes THEN << <<"Platform", i>> >>
  ELSE IF "environment" \in injectors[i].scopes /\ "root" \in injectors[i].scopes
    THEN IF own # Undef THEN << <<"Module", i>> >> ELSE << <<"Injector", i>> >>
  ELSE IF own # Undef THEN << <<"Module", i>> >>
  ELSE <<>>

RECURSIVE ParentChain(_)
\* The injectors from injector i on by parent links, up to the null injector.
ParentChain(i) ==
  IF i = 0 THEN <<>>
  ELSE IF injectors[i].isNull THEN <<i>>
  ELSE <<i>> \o ParentChain(injectors[i].parent)

RECURSIVE RecordsByRule(_)
\* The records the rule gives the injectors of a chain, in chain order.
RecordsByRule(chain) ==
  IF Len(chain) = 0 THEN <<>>
  ELSE ClassifiedByRule(Head(chain)) \o RecordsByRule(Tail(chain))

\* The records of the last call's path as <<kind, injector>>, from position
\* k on.
KindsFrom(k) ==
  [j \in 1..(Len(lastCall.path) - k + 1) |->
     <<lastCall.path[j + k - 1].type, lastCall.path[j + k - 1].instance>>]

\* The last call walked the chain of an element with a view context.
WalkReturned ==
  /\ lastCall.called /\ lastCall.fn = "getInjectorResolutionPath"
  /\ lastCall.outcome = "returned"

\* C24: the path of a walk is the Element records followed by the records
\* the classification rule gives the injectors of the parent chain, one at
\* most for each, in parent-link order, with the NullInjector record last.
C24_WalkerClassifiesParentChain ==
  WalkReturned =>
    LET els == Len(getInjectorPath(lastCall.element))
    IN /\ Len(lastCall.path) >= els
       /\ \A k \in 1..els : lastCall.path[k].type = "Element"
       /\ KindsFrom(els + 1) = RecordsByRule(ParentChain(nodes[lastCall.element].envStart))

\* C24, on a chain without a wrapping injector that starts at an injector
\* with a module instance.
C24_WalkerClassifiesPlainChain ==
  (WalkReturned
     /\ ModuleTypeOf(ModuleRefOf(nodes[lastCall.element].envStart)) # Undef
     /\ \A i \in 1..Len(injectors) : ~IsWrapper(i)) =>
    LET els == Len(getInjectorPath(lastCall.element))
    IN /\ Len(lastCall.path) >= els
       /\ \A k \in 1..els : lastCall.path[k].type = "Element"
       /\ KindsFrom(els + 1) = RecordsByRule(ParentChain(nodes[lastCall.element].envStart))

\* C24, on a chain that starts at an injector with a module instance, with
\* or without a wrapping injector.
C24_WalkerClassifiesFromModule ==
  (WalkReturned
     /\ ModuleTypeOf(ModuleRefOf(nodes[lastCall.element].envStart)) # Undef) =>
    LET els == Len(getInjectorPath(lastCall.element))
    IN KindsFrom(els + 1) = RecordsByRule(ParentChain(nodes[lastCall.element].envStart))

\* The last call traced a token from an element with a view context and
\* returned a path.
TraceReturned ==
  /\ lastCall.called /\ lastCall.fn = "traceTokenInjectorPath"
  /\ lastCall.outcome = "returned" /\ lastCall.token \in Tokens

\* The path of the last call is a prefix of the walk of the same element by
\* kinds, and by owners for the records of environment injectors.
PrefixOfWalk ==
  LET walk == getInjectorResolutionPath(lastCall.element)
  IN /\ Len(lastCall.path) <= Len(walk)
     /\ \A k \in 1..Len(lastCall.path) :
          /\ lastCall.path[k].type = walk[k].type
          /\ walk[k].type # "Element" => lastCall.path[k].owner = walk[k].owner

\* C25: the path a trace returns is a prefix of the walker's path for the
\* same element, with the same kinds and owners.
C25_TraceIsPrefixOfWalk ==
  TraceReturned => PrefixOfWalk

\* C25, for a view whose injector chain starts at an injector with a module
\* instance.
C25_TraceIsPrefixOfWalkFromModule ==
  (TraceReturned /\ ModuleTypeOf(ModuleRefOf(nodes[lastCall.element].envStart)) # Undef) =>
    PrefixOfWalk

RECURSIVE ReachesEnd(_, _)
\* The parent links from injector i reach an injector without parent or the
\* null injector within fuel links.
ReachesEnd(i, fuel) ==
  IF i = 0 THEN TRUE
  ELSE IF injectors[i].isNull THEN TRUE
  ELSE IF fuel = 0 THEN FALSE
  ELSE ReachesEnd(injectors[i].parent, fuel - 1)

\* The parent chain from injector i is finite / runs into a cycle.
AcyclicFrom(i) == ReachesEnd(i, Len(injectors))
CyclicFrom(i) == ~AcyclicFrom(i)

\* The steps of a finished call on a chain without a cycle gave what the
\* walker and the tracer give as functions.
StepsAgreeWithFunctions ==
  (lastCall.called /\ lastCall.outcome # "running"
     /\ AcyclicFrom(nodes[lastCall.element].envStart)) =>
    IF lastCall.fn = "getInjectorResolutionPath"
      THEN lastCall.path = getInjectorResolutionPath(lastCall.element)
      ELSE LET r == traceTokenInjectorPath(lastCall.element, lastCall.token)
           IN lastCall.outcome = r.outcome /\ lastCall.path = r.path

\* C26: on a parent chain without a cycle the loop of the walker and the loop
\* of the tracer end; the loop of the walker, once it is at an injector of a
\* chain that runs into a cycle and has no null injector, never ends.
C26_LoopsEndUnlessCyclic ==
  /\ [](Running /\ AcyclicFrom(lastCall.station) => <>(~Running))
  /\ [](Running /\ lastCall.fn = "getInjectorResolutionPath"
          /\ CyclicFrom(lastCall.station) => [](Running))

\* The walker has gone round a cycle: it holds more records than there are
\* elements and injectors.
C26_Witness ==
  /\ Running /\ lastCall.fn = "getInjectorResolutionPath"
  /\ CyclicFrom(lastCall.station)
  /\ Len(lastCall.path) > Len(nodes) + Len(injectors)

\* A walk and a trace ended at the null injector of a chain without a cycle.
C26_WitnessEnded ==
  /\ lastCall.called /\ lastCall.outcome = "returned"
  /\ Len(lastCall.path) > 0
  /\ lastCall.path[Len(lastCall.path)].type = "NullInjector"
  /\ Len(injectors) >= 3

\* No getProviders request and no receiveProviders message is in flight.
Quiescent ==
  Len(messageBus.getProviders) = 0 /\ Len(messageBus.receiveProviders) = 0

\* C27: when every response has arrived, the providers shown are those of the
\* response to the click that selected the node now selected.
C27_ShownProvidersOfSelectedNode ==
  (Quiescent /\ injectorTreeComponent.selectedNode # 0) =>
    injectorTreeComponent.shown = injectorTreeComponent.selectedNode

\* C27 with one click only: the response is shown unless the handler threw
\* and left the list empty.
C27_OneClickShown ==
  (Quiescent /\ injectorTreeComponent.clicks = 1 /\ injectorTreeComponent.shown # 0) =>
    injectorTreeComponent.shown = injectorTreeComponent.selectedNode

\* A click: the step of NodeClick.
Clicked == injectorTreeComponent'.clicks = injectorTreeComponent.clicks + 1

\* C28: after every injectorTree update that called _render the graph holds
\* exactly one node-click listener, and a click on a node registers exactly one
\* receiveProviders handler and sends exactly one getProviders request.
C28_OneListenerOneRequest ==
  [][/\ injectorTreeComponent'.rendered # "never" =>
          injectorTreeComponent'.nodeClickListeners = 1
     /\ Clicked =>
          /\ messageBus'.once = messageBus.once + 1
          /\ Len(messageBus'.getProviders) = Len(messageBus.getProviders) + 1]_vars

\* C28 where _render returned: the graph never holds two listeners, holds one
\* after a _render that returned and whenever a node is drawn, so a click
\* sends one request and registers one handler.
C28_OneListenerWhereDrawn ==
  [][/\ injectorTreeComponent'.rendered = "returned" =>
          injectorTreeComponent'.nodeClickListeners = 1
     /\ injectorTreeComponent'.nodeClickListeners <= 1
     /\ injectorTreeComponent'.drawn # {} => injectorTreeComponent'.nodeClickListeners = 1
     /\ Clicked =>
          /\ messageBus'.once = messageBus.once + 1
          /\ Len(messageBus'.getProviders) = Len(messageBus.getProviders) + 1]_vars

\* The tree was drawn twice and a node of it was clicked.
C28_Witness ==
  /\ injectorTreeComponent.rendered = "returned"
  /\ injectorTreeComponent.clicks > 0
  /\ sent = MaxRequests /\ requests = 0 /\ Len(inbox) = 0 /\ pc = "idle"

\* findInjector was called with the position of a node of the view.
Found == lastCall.called /\ lastCall.fn = "findInjector"

\* The record findInjector found is the record the clicked node shows.
SameRecord ==
  /\ lastCall.outcome = "returned"
  /\ lastCall.node.type = lastCall.injector.type
  /\ lastCall.node.owner = <<lastCall.injector.owner.name>>

\* C29: findInjector maps the position of every node of the flattened chain
\* back to the record the node shows: [idx] to the record at idx of the
\* root-first path, [idx, idx2] to the same imported module.
C29_PositionRoundTrip ==
  Found =>
    /\ SameRecord
    /\ Len(lastCall.node.position) = 1 =>
         lastCall.injector = Reverse(lastCall.path)[lastCall.node.position[1] + 1]

\* C29 for the positions [idx], and for [idx, idx2] in an importPath of two
\* modules.
C29_RecordPositionRoundTrip ==
  (Found /\ (Len(lastCall.node.position) = 1
               \/ Len(Reverse(lastCall.path)[lastCall.node.position[1] + 1].importPath) = 2)) =>
    SameRecord

\* The last request handled was getLatestComponentExplorerView.
ExplorerViewRequested ==
  lastCall.called /\ lastCall.fn = "getLatestComponentExplorerView"

\* C30: for every getLatestComponentExplorerView request, with or without a
\* query, for a position with or without a node, the backend emits
\* latestInjectorGraphView and then exactly one latestComponentExplorerView.
C30_GraphViewThenExplorerView ==
  ExplorerViewRequested =>
    lastCall.emitted = <<"latestInjectorGraphView", "latestComponentExplorerView">>

\* C30 for the requests whose handler does not throw: the two messages in
\* this order; a handler that throws after the rebuild has emitted
\* latestInjectorGraphView alone.
C30_GraphViewThenExplorerViewUnlessThrown ==
  ExplorerViewRequested =>
    /\ (lastCall.outcome # "threw") =>
         lastCall.emitted = <<"latestInjectorGraphView", "latestComponentExplorerView">>
    /\ (lastCall.element = NoQuery /\ lastCall.emitted # <<>>) =>
         lastCall.emitted = <<"latestInjectorGraphView", "latestComponentExplorerView">>
    /\ lastCall.emitted \in {<<>>, <<"latestInjectorGraphView">>,
                              <<"latestInjectorGraphView", "latestComponentExplorerView">>}

\* The position of the query has no node and the forest was serialized:
\* latestInjectorGraphView was emitted and latestComponentExplorerView was not.
C30_MissingElementSeen ==
  /\ ExplorerViewRequested
  /\ lastCall.element = MissingElement
  /\ lastCall.emitted = <<"latestInjectorGraphView">>

====
